---- MODULE Spec2Model ----
(***************************************************************************)
(* A model of the oxi8 CHIP-8 / SCHIP interpreter (oxi8_cpu/src/lib.rs):   *)
(* the Cpu with its registers, memory, stack, keyboard wait state machine, *)
(* display and clocks, and the operations the hosts drive it with.         *)
(*                                                                         *)
(* A Rust panic is modelled by the pair <<state at the panic, message>>:   *)
(* whatever the instruction wrote before the panic stays written.         *)
(***************************************************************************)
EXTENDS Integers, Sequences, FiniteSets, TLC

VARIABLES
    cpu,              \* the Cpu struct (lib.rs 240-260), nested structs as records
    panic,            \* "" while running, else the message of the panic that ended the run
    op,               \* the last call the host made: <<name, arguments...>>
    returned,         \* the value that call returned (0 for a call that returns nothing)
    pre,              \* the Cpu as it was when that call was made
    hist,             \* history: the return addresses pushed and not yet popped, in order,
                      \* and the one the last call popped (-1 if it popped none)
    now,              \* the monotonic wall clock (Instant::now), in nanoseconds
    overflow_checks   \* build profile: TRUE = arithmetic overflow panics (debug), FALSE = wraps

vars == <<cpu, panic, op, returned, pre, hist, now, overflow_checks>>

(***************************************************************************)
(* Program constants                                                       *)
(***************************************************************************)
RAM_SIZE == 4096
PROGRAM_OFFSET == 512
NUM_REGISTERS == 16
NUM_FLAG_REGISTERS == 8
STACK_SIZE == 16
DISPLAY_WIDTH == 64
DISPLAY_HEIGHT == 32
SMALL_SPRITE_LEN == 80
SPRITE_LEN == SMALL_SPRITE_LEN + SMALL_SPRITE_LEN * 2
NUM_KEYS == 16
CLOCK_RATE_HZ == 500
DELAY_DECREMENT_HZ == 60
NANOS_PER_SEC == 1000000000
WIDTH == DISPLAY_WIDTH
HEIGHT == DISPLAY_HEIGHT

SPRITES ==
    << 240, 144, 144, 144, 240,   32,  96,  32,  32, 112,
       240,  16, 240, 128, 240,  240,  16, 240,  16, 240,
       144, 144, 240,  16,  16,  240, 128, 240,  16, 240,
       240, 128, 240, 144, 240,  240,  16,  32,  64,  64,
       240, 144, 240, 144, 240,  240, 144, 240,  16, 240,
       240, 144, 240, 144, 144,  224, 144, 224, 144, 224,
       240, 128, 128, 128, 240,  224, 144, 144, 144, 224,
       240, 128, 240, 128, 240,  240, 128, 240, 128, 128,
       255, 255, 195, 195, 195, 195, 195, 195, 255, 255,
        24, 120, 120,  24,  24,  24,  24,  24, 255, 255,
       255, 255,   3,   3, 255, 255, 192, 192, 255, 255,
       255, 255,   3,   3, 255, 255,   3,   3, 255, 255,
       195, 195, 195, 195, 255, 255,   3,   3,   3,   3,
       255, 255, 192, 192, 255, 255,   3,   3, 255, 255,
       255, 255, 192, 192, 255, 255, 195, 195, 255, 255,
       255, 255,   3,   3,   6,  12,  24,  24,  24,  24,
       255, 255, 195, 195, 255, 255, 195, 195, 255, 255,
       255, 255, 195, 195, 255, 255,   3,   3, 255, 255,
       126, 255, 195, 195, 195, 255, 255, 195, 195, 195,
       252, 252, 195, 195, 252, 252, 195, 195, 252, 252,
        60, 255, 195, 192, 192, 192, 192, 195, 255,  60,
       252, 254, 195, 195, 195, 195, 195, 195, 254, 252,
       255, 255, 192, 192, 255, 255, 192, 192, 255, 255,
       255, 255, 192, 192, 255, 255, 192, 192, 192, 192 >>

(***************************************************************************)
(* Fixed-width integer arithmetic (u8, u16) and bit operations             *)
(***************************************************************************)
U8 == 256
U16 == 65536

RECURSIVE BitOp(_, _, _, _)
\* bitwise combination of the low n bits of a and b; f[<<bit a, bit b>>] is the result bit
BitOp(f, a, b, n) ==
    IF n = 0 THEN 0
    ELSE f[<<a % 2, b % 2>>] + 2 * BitOp(f, a \div 2, b \div 2, n - 1)

AndBits == [p \in {0, 1} \X {0, 1} |-> IF p[1] = 1 /\ p[2] = 1 THEN 1 ELSE 0]
OrBits  == [p \in {0, 1} \X {0, 1} |-> IF p[1] = 1 \/ p[2] = 1 THEN 1 ELSE 0]
XorBits == [p \in {0, 1} \X {0, 1} |-> IF p[1] # p[2] THEN 1 ELSE 0]

BitAnd(a, b) == BitOp(AndBits, a, b, 16)
BitOr(a, b)  == BitOp(OrBits, a, b, 16)
BitXor(a, b) == BitOp(XorBits, a, b, 16)

\* a + b on an unsigned type of `modulus` values: the build decides what overflow does
CheckedAdd(a, b, modulus) ==
    [value |-> (a + b) % modulus, overflow |-> a + b >= modulus]

CheckedSub(a, b, modulus) ==
    [value |-> (a - b + modulus) % modulus, overflow |-> a < b]

CheckedMul(a, b, modulus) ==
    [value |-> (a * b) % modulus, overflow |-> a * b >= modulus]

(***************************************************************************)
(* Outcomes of a call: the state it leaves, the value it returns, and the  *)
(* panic message if it panicked                                            *)
(***************************************************************************)
Ok(c, ret) == [cpu |-> c, ret |-> ret, panic |-> ""]
Panic(c, msg) == [cpu |-> c, ret |-> 0, panic |-> msg]

\* a checked arithmetic result r used at state c: continue with k(value) or panic
OVERFLOW_MSG == "attempt to do arithmetic with overflow"
INDEX_MSG == "index out of bounds"
BAD_MSG == "bad instruction"
FREEZE_MSG == "0000 - Octo - FREEZE instruction!"
EXIT_MSG == "00FD - SCHIP - EXIT instruction!"
STACK_OVERFLOW_MSG == "exceeded maximum stack size"
STACK_EMPTY_MSG == "returning with no value on stack?"
FX75_MSG == "Fx75 out of bounds"
FX85_MSG == "Fx85 out of bounds"
DIV_ZERO_MSG == "attempt to divide by zero"

(***************************************************************************)
(* Nibble and Instruction (lib.rs 724-789)                                 *)
(***************************************************************************)
high(b) == (b \div 16) % 16
low(b) == b % 16

Instruction(wx, yz) == [wx |-> wx, yz |-> yz]
I_w(i) == high(i.wx)
I_x(i) == low(i.wx)
I_y(i) == high(i.yz)
I_z(i) == low(i.yz)
I_yz(i) == i.yz
\* the "xy" field is the SUM of the two nibbles (u8 addition, at most 30)
I_xy(i) == low(i.wx) + high(i.yz)
I_xyz(i) == (i.wx * 256 + i.yz) % 4096

Opcode(i) == i.wx * 256 + i.yz
InstructionOf(opcode) == Instruction(opcode \div 256, opcode % 256)

(***************************************************************************)
(* Keyboard (lib.rs 86-118)                                                *)
(***************************************************************************)
KeyWait_None == <<"None">>
KeyWait_Wait == <<"Wait">>
KeyWait_Pressed(k) == <<"Pressed", k>>

Keyboard_default ==
    [keys |-> [k \in 0 .. NUM_KEYS - 1 |-> FALSE], keywait |-> KeyWait_None]

\* variant: a later press replaces the key already latched
toggle_key_relatch(kb, key, pressed) ==
    [keys |-> [kb.keys EXCEPT ![key] = pressed],
     keywait |-> IF pressed /\ kb.keywait # KeyWait_None
                 THEN KeyWait_Pressed(key)
                 ELSE kb.keywait]

\* variant: releasing the latched key re-arms the wait
toggle_key_release_rearms(kb, key, pressed) ==
    [keys |-> [kb.keys EXCEPT ![key] = pressed],
     keywait |-> IF pressed /\ kb.keywait = KeyWait_Wait
                 THEN KeyWait_Pressed(key)
                 ELSE IF ~pressed /\ kb.keywait = KeyWait_Pressed(key)
                      THEN KeyWait_Wait
                      ELSE kb.keywait]

toggle_key(kb, key, pressed) ==
    [keys |-> [kb.keys EXCEPT ![key] = pressed],
     keywait |-> IF pressed /\ kb.keywait = KeyWait_Wait
                 THEN KeyWait_Pressed(key)
                 ELSE kb.keywait]

(***************************************************************************)
(* Stack (lib.rs 202-238)                                                  *)
(***************************************************************************)
Stack_new == [stack |-> [k \in 0 .. STACK_SIZE - 1 |-> 0], sp |-> 0]

\* variant: the slot is read before the stack pointer is lowered (off by one)
Stack_pop_off_by_one(s) ==
    IF s.sp = 0
    THEN [stack |-> s, result |-> <<"None">>]
    ELSE [stack |-> [s EXCEPT !.sp = s.sp - 1],
          result |-> <<"Some", s.stack[s.sp % STACK_SIZE]>>]

\* Option<u16>: <<"None">> or <<"Some", value>>, with the stack it leaves
Stack_pop(s) ==
    IF s.sp = 0
    THEN [stack |-> s, result |-> <<"None">>]
    ELSE [stack |-> [s EXCEPT !.sp = s.sp - 1],
          result |-> <<"Some", s.stack[s.sp - 1]>>]

Stack_push(s, value) ==
    IF s.sp = STACK_SIZE
    THEN [stack |-> s, result |-> <<"None">>]
    ELSE [stack |-> [stack |-> [s.stack EXCEPT ![s.sp] = value], sp |-> s.sp + 1],
          result |-> <<"Some">>]

Stack_clear(s) == [s EXCEPT !.sp = 0]

(***************************************************************************)
(* Display trait and BoolDisplay (lib.rs 816-1000)                         *)
(* buffer is the Vec<Vec<bool>>: a sequence of rows, each a sequence of    *)
(* pixels; Rust index k is TLA+ index k + 1.                               *)
(***************************************************************************)
Repeat(n, val) == [k \in 1 .. n |-> val]

\* Vec::truncate(n) and Vec::resize(n, val)
Vec_truncate(vec, n) == IF n < Len(vec) THEN SubSeq(vec, 1, n) ELSE vec
Vec_resize(vec, n, val) ==
    IF n <= Len(vec) THEN SubSeq(vec, 1, n) ELSE vec \o Repeat(n - Len(vec), val)

BoolDisplay_new(scale) ==
    [width |-> WIDTH,
     height |-> HEIGHT,
     buffer |-> Repeat(HEIGHT, Repeat(WIDTH, FALSE)),
     scale |-> scale,
     hires |-> FALSE]

\* buffer[y][x] is in range
InBuffer(d, x, y) == y < Len(d.buffer) /\ x < Len(d.buffer[y + 1])

current_pixel(d, x, y) == IF d.buffer[y + 1][x + 1] THEN 1 ELSE 0

set_pixel(d, x, y, new_pixel) ==
    [d EXCEPT !.buffer[y + 1][x + 1] = (new_pixel # 0)]

\* variant: only the first row is cleared
Display_clear_first_row(d) ==
    [d EXCEPT !.buffer = [r \in 1 .. Len(d.buffer) |->
                             IF r = 1 THEN [p \in 1 .. Len(d.buffer[r]) |-> FALSE]
                             ELSE d.buffer[r]]]
Display_clear(d) ==
    [d EXCEPT !.buffer = [r \in 1 .. Len(d.buffer) |->
                             [p \in 1 .. Len(d.buffer[r]) |-> FALSE]]]

\* variant: the display is cleared when the mode is the current one, too
set_hires_always_clear(d, on) ==
    IF d.hires = on
    THEN Display_clear(d)
    ELSE Display_clear(
             [width |-> IF on THEN WIDTH * 2 ELSE WIDTH,
              height |-> IF on THEN HEIGHT * 2 ELSE HEIGHT,
              buffer |-> Repeat(IF on THEN HEIGHT * 2 ELSE HEIGHT,
                                Repeat(IF on THEN WIDTH * 2 ELSE WIDTH, FALSE)),
              scale |-> IF on THEN d.scale \div 2 ELSE d.scale * 2,
              hires |-> on])
set_hires(d, on) ==
    IF d.hires = on
    THEN d
    ELSE IF on
         THEN LET new_width == WIDTH * 2
                  new_height == HEIGHT * 2
                  rows == Vec_resize(d.buffer, new_height, Repeat(new_width, FALSE))
              IN Display_clear(
                     [width |-> new_width,
                      height |-> new_height,
                      buffer |-> [r \in 1 .. Len(rows) |->
                                     Vec_resize(rows[r], new_width, FALSE)],
                      scale |-> d.scale \div 2,
                      hires |-> TRUE])
         ELSE LET rows == Vec_truncate(d.buffer, HEIGHT)
              IN Display_clear(
                     [width |-> WIDTH,
                      height |-> HEIGHT,
                      buffer |-> [r \in 1 .. Len(rows) |-> Vec_truncate(rows[r], WIDTH)],
                      \* doubles what the switch to hi-res halved: never above the u32 it started as
                      scale |-> d.scale * 2,
                      hires |-> FALSE])

\* the result of a blit: the display, the collision flag, and the panic message when a
\* pixel index was out of range
Blit(d, off, msg) == [display |-> d, pixel_turned_off |-> off, panic |-> msg]

RECURSIVE draw_bits(_, _, _, _, _, _)
\* the loop of draw_byte from bit_number on
draw_bits(d, starting_x, y, byte, bit_number, off) ==
    IF bit_number = 8
    THEN Blit(d, off, "")
    ELSE LET x == (starting_x + bit_number) % d.width
             current_bit == (byte \div (2 ^ (7 - bit_number))) % 2
         IN IF ~InBuffer(d, x, y)
            THEN Blit(d, off, INDEX_MSG)
            ELSE LET cur == current_pixel(d, x, y)
                     new_pixel == IF current_bit # cur THEN 1 ELSE 0
                 IN draw_bits(set_pixel(d, x, y, new_pixel), starting_x, y, byte,
                              bit_number + 1, off \/ (cur = 1 /\ new_pixel = 0))

\* variant: the sprite bits are OR-ed onto the row
draw_byte_or(d, starting_x, y, byte) ==
    LET b == draw_bits(d, starting_x, y, byte, 0, FALSE)
    IN [b EXCEPT !.display.buffer[y + 1] =
                     [c \in 1 .. Len(@) |-> d.buffer[y + 1][c] \/ @[c]]]
draw_byte(d, starting_x, y, byte) == draw_bits(d, starting_x, y, byte, 0, FALSE)

RECURSIVE draw_rows(_, _, _, _, _, _)
\* the loop of draw from byte k (1-based) of memory on, at row y
draw_rows(d, starting_x, y, memory, k, off) ==
    IF k > Len(memory)
    THEN Blit(d, off, "")
    ELSE LET b == draw_byte(d, starting_x, y, memory[k])
         IN IF b.panic # ""
            THEN Blit(b.display, off, b.panic)
            ELSE draw_rows(b.display, starting_x, (y + 1) % d.height, memory, k + 1,
                           off \/ b.pixel_turned_off)

\* variant: the flag reports any changed pixel
draw_reports_change(d, starting_x, starting_y, memory) ==
    LET b == draw_rows(d, starting_x, starting_y % d.height, memory, 1, FALSE)
    IN [b EXCEPT !.pixel_turned_off = (b.display # d)]
\* variant: a starting row beyond the bottom edge is moved onto the last row
draw_clamps(d, starting_x, starting_y, memory) ==
    draw_rows(d, starting_x, IF starting_y >= d.height THEN d.height - 1 ELSE starting_y,
              memory, 1, FALSE)
draw(d, starting_x, starting_y, memory) ==
    draw_rows(d, starting_x, starting_y % d.height, memory, 1, FALSE)

\* the iterations of `for _ in 1..16`
SchipIterations == 15

RECURSIVE schip_rows(_, _, _, _, _, _)
\* the loop of schip_draw: n counts the iterations of `for _ in 1..16` already done
schip_rows(d, starting_x, y, memory, n, off) ==
    IF n = SchipIterations
    THEN Blit(d, off, "")
    ELSE LET left == memory[2 * n + 1]
             right == memory[2 * n + 2]
             l == draw_byte(d, starting_x, y, left)
         IN IF l.panic # ""
            THEN Blit(l.display, off, l.panic)
            ELSE IF d.hires
                 THEN LET r == draw_byte(l.display, starting_x + 8, y, right)
                      IN IF r.panic # ""
                         THEN Blit(r.display, off, r.panic)
                         ELSE schip_rows(r.display, starting_x, (y + 1) % d.height,
                                         memory, n + 1,
                                         off \/ l.pixel_turned_off \/ r.pixel_turned_off)
                 ELSE schip_rows(l.display, starting_x, (y + 1) % d.height, memory,
                                 n + 1, off \/ l.pixel_turned_off)

\* variant: the right byte is blitted in low-res too
schip_draw_right_always(d, starting_x, starting_y, memory) ==
    LET b == schip_rows([d EXCEPT !.hires = TRUE], starting_x, starting_y % d.height,
                        memory, 0, FALSE)
    IN [b EXCEPT !.display.hires = d.hires]
schip_draw(d, starting_x, starting_y, memory) ==
    schip_rows(d, starting_x, starting_y % d.height, memory, 0, FALSE)

\* variant: the columns pushed off the left edge come back at the right edge
scroll_left_wraps(d) ==
    LET pixels == IF d.hires THEN 4 ELSE 2
    IN [d EXCEPT !.buffer = [r \in 1 .. Len(d.buffer) |->
           SubSeq(d.buffer[r], pixels + 1, Len(d.buffer[r]))
               \o SubSeq(d.buffer[r], 1, pixels)]]
scroll_left(d) ==
    LET pixels == IF d.hires THEN 4 ELSE 2
    IN [d EXCEPT !.buffer = [r \in 1 .. Len(d.buffer) |->
           Vec_resize(SubSeq(d.buffer[r], pixels + 1, Len(d.buffer[r])), d.width, FALSE)]]

\* variant: the rows are left shorter by the columns dropped
scroll_right_shrinks(d) ==
    LET pixels == IF d.hires THEN 4 ELSE 2
    IN [d EXCEPT !.buffer = [r \in 1 .. Len(d.buffer) |->
           Vec_truncate(d.buffer[r], d.width - pixels)]]
\* variant: 4 columns in either mode
scroll_right_by_four(d) ==
    [d EXCEPT !.buffer = [r \in 1 .. Len(d.buffer) |->
        Repeat(4, FALSE) \o Vec_truncate(d.buffer[r], d.width - 4)]]
scroll_right(d) ==
    LET pixels == IF d.hires THEN 4 ELSE 2
        truncate_to == d.width - pixels
    IN [d EXCEPT !.buffer = [r \in 1 .. Len(d.buffer) |->
           Repeat(pixels, FALSE) \o Vec_truncate(d.buffer[r], truncate_to)]]

\* variant: n rows in either mode
scroll_down_unhalved(d, n) ==
    [d EXCEPT !.buffer = Repeat(n, Repeat(d.width, FALSE))
                             \o Vec_truncate(d.buffer, d.height - n)]
scroll_down(d, n) ==
    LET pixels == IF d.hires THEN n ELSE n \div 2
    IN [d EXCEPT !.buffer = Repeat(pixels, Repeat(d.width, FALSE))
                                \o Vec_truncate(d.buffer, d.height - pixels)]

(***************************************************************************)
(* Timer (lib.rs 127-157)                                                  *)
(***************************************************************************)
Timer_new(rate_hz) ==
    [cycle_every_nanos |-> NANOS_PER_SEC \div rate_hz, last_cycle_timestamp |-> 0]

(***************************************************************************)
(* Cpu (lib.rs 240-387)                                                    *)
(***************************************************************************)
\* Cpu::new: sprites up front, the rom at PROGRAM_OFFSET, everything else zero
Cpu_new(rom, display, start) ==
    [i |-> 0,
     v |-> [r \in 0 .. NUM_REGISTERS - 1 |-> 0],
     flag |-> [r \in 0 .. NUM_FLAG_REGISTERS - 1 |-> 0],
     delay |-> 0,
     sound |-> 0,
     ram |-> [a \in 0 .. RAM_SIZE - 1 |->
                 IF a < SPRITE_LEN THEN SPRITES[a + 1]
                 ELSE IF a >= PROGRAM_OFFSET /\ a < PROGRAM_OFFSET + Len(rom)
                      THEN rom[a - PROGRAM_OFFSET + 1]
                      ELSE 0],
     pc |-> PROGRAM_OFFSET,
     stack |-> Stack_new,
     display |-> display,
     keyboard |-> Keyboard_default,
     start_time |-> start,
     clock_rate_hz |-> CLOCK_RATE_HZ,
     cpu_timer |-> Timer_new(CLOCK_RATE_HZ),
     delay_timer |-> Timer_new(DELAY_DECREMENT_HZ),
     num_instructions_per_decrement |-> CLOCK_RATE_HZ \div DELAY_DECREMENT_HZ]

\* variant: a register at 0 wraps to 255
decrement_timers_wraps(c) ==
    [c EXCEPT !.delay = (c.delay + U8 - 1) % U8,
              !.sound = (c.sound + U8 - 1) % U8]
decrement_timers(c) ==
    [c EXCEPT !.delay = IF c.delay > 0 THEN c.delay - 1 ELSE c.delay,
              !.sound = IF c.sound > 0 THEN c.sound - 1 ELSE c.sound]

\* variant: the clocks' stamps survive a reset
reset_keeps_stamps(c, t) ==
    [c EXCEPT !.i = 0,
              !.v = [r \in 0 .. NUM_REGISTERS - 1 |-> 0],
              !.delay = 0,
              !.sound = 0,
              !.pc = PROGRAM_OFFSET,
              !.stack = Stack_clear(c.stack),
              !.display = set_hires(c.display, FALSE),
              !.keyboard.keywait = KeyWait_None,
              !.start_time = t]

\* variant: a reset builds the Cpu anew around the display, at the configured clock rate
reset_rebuilds(c, t) ==
    [c EXCEPT !.i = 0,
              !.v = [r \in 0 .. NUM_REGISTERS - 1 |-> 0],
              !.flag = [r \in 0 .. NUM_FLAG_REGISTERS - 1 |-> 0],
              !.delay = 0,
              !.sound = 0,
              !.pc = PROGRAM_OFFSET,
              !.stack = Stack_new,
              !.display = set_hires(c.display, FALSE),
              !.keyboard = Keyboard_default,
              !.start_time = t,
              !.cpu_timer.last_cycle_timestamp = 0,
              !.delay_timer.last_cycle_timestamp = 0]

\* variant: a reset leaves the key-wait state armed
reset_keeps_keywait(c, t) ==
    [c EXCEPT !.i = 0,
              !.v = [r \in 0 .. NUM_REGISTERS - 1 |-> 0],
              !.delay = 0,
              !.sound = 0,
              !.pc = PROGRAM_OFFSET,
              !.stack = Stack_clear(c.stack),
              !.display = set_hires(c.display, FALSE),
              !.start_time = t,
              !.cpu_timer.last_cycle_timestamp = 0,
              !.delay_timer.last_cycle_timestamp = 0]

\* Cpu::reset at wall-clock time t
reset(c, t) ==
    [c EXCEPT !.i = 0,
              !.v = [r \in 0 .. NUM_REGISTERS - 1 |-> 0],
              !.delay = 0,
              !.sound = 0,
              !.pc = PROGRAM_OFFSET,
              !.stack = Stack_clear(c.stack),
              !.display = set_hires(c.display, FALSE),
              !.keyboard.keywait = KeyWait_None,
              !.start_time = t,
              !.cpu_timer.last_cycle_timestamp = 0,
              !.delay_timer.last_cycle_timestamp = 0]

\* an unsigned addition / subtraction at state c whose result is the value returned
AddOutcome(c, a, b, modulus) ==
    LET r == CheckedAdd(a, b, modulus)
    IN IF r.overflow /\ overflow_checks THEN Panic(c, OVERFLOW_MSG) ELSE Ok(c, r.value)

\* Cpu::next and Cpu::skip_if (the new program counter)
\* variant: the program counter advances past the following instruction, too
next_skips(c) == AddOutcome(c, c.pc, 4, U16)
next(c) == AddOutcome(c, c.pc, 2, U16)
skip_if(c, skip) == AddOutcome(c, c.pc, IF skip THEN 4 ELSE 2, U16)

\* Cpu::bad
bad(c, i) == Panic(c, BAD_MSG)

\* self.ram.s(index, value) and self.ram.g(index): slice indexing panics out of range
ram_s(c, index, value) ==
    IF index >= RAM_SIZE THEN Panic(c, INDEX_MSG)
    ELSE Ok([c EXCEPT !.ram[index] = value], 0)

\* Keyboard::key_pressed(keycode): keys[keycode] panics for keycode >= NUM_KEYS
key_pressed(c, keycode) ==
    IF keycode >= NUM_KEYS THEN Panic(c, INDEX_MSG)
    ELSE Ok(c, c.keyboard.keys[keycode])

\* Cpu::next_instruction: the two bytes at pc, or the panic of reading past the memory
next_instruction(c) ==
    IF c.pc >= RAM_SIZE \/ c.pc + 1 >= RAM_SIZE
    THEN Panic(c, INDEX_MSG)
    ELSE Ok(c, Instruction(c.ram[c.pc], c.ram[c.pc + 1]))

(***************************************************************************)
(* Cpu::execute_instruction (lib.rs 390-650), one operator per family.     *)
(* Each gives Ok(state, next pc) or Panic(state at the panic, message).    *)
(***************************************************************************)
\* 0x0 family: FREEZE, CLS, scrolls, EXIT, LORES, HIRES, RET, 00Cz
exec_0(c, i) ==
    LET xyz == I_xyz(i)
    IN CASE xyz = \h000 -> Panic(c, FREEZE_MSG)
         [] xyz = \h0E0 -> next([c EXCEPT !.display = Display_clear(c.display)])
         [] xyz = \h0FB -> next([c EXCEPT !.display = scroll_right(c.display)])
         [] xyz = \h0FC -> next([c EXCEPT !.display = scroll_left(c.display)])
         [] xyz = \h0FD -> Panic(c, EXIT_MSG)
         [] xyz = \h0FE -> next([c EXCEPT !.display = set_hires(c.display, FALSE)])
         [] xyz = \h0FF -> next([c EXCEPT !.display = set_hires(c.display, TRUE)])
         [] xyz = \h0EE ->
                LET p == Stack_pop(c.stack)
                IN IF p.result = <<"None">>
                   THEN Panic(c, STACK_EMPTY_MSG)
                   ELSE AddOutcome([c EXCEPT !.stack = p.stack], p.result[2], 2, U16)
         [] OTHER ->
                IF I_xy(i) = \h0C
                THEN next([c EXCEPT !.display = scroll_down(c.display, I_z(i))])
                ELSE bad(c, i)

\* variant: CALL pushes the address of the instruction after it
exec_2_push_next(c, i) ==
    LET p == Stack_push(c.stack, c.pc + 2)
    IN IF p.result = <<"None">>
       THEN Panic(c, STACK_OVERFLOW_MSG)
       ELSE Ok([c EXCEPT !.stack = p.stack], I_xyz(i))

\* 2xyz - CALL
exec_2(c, i) ==
    LET p == Stack_push(c.stack, c.pc)
    IN IF p.result = <<"None">>
       THEN Panic(c, STACK_OVERFLOW_MSG)
       ELSE Ok([c EXCEPT !.stack = p.stack], I_xyz(i))

\* 7xyz - ADD Vx, yz (wrapping_add)
exec_7(c, i) ==
    next([c EXCEPT !.v[I_x(i)] = (c.v[I_x(i)] + I_yz(i)) % U8])

\* the flag values the 0x8 family writes into v[0xF]
add_flag(vx, vy) == IF vx + vy >= U8 THEN 1 ELSE 0
\* variant: the flag says that no borrow occurred
sub_flag_no_borrow(vx, vy) == IF vx >= vy THEN 1 ELSE 0
sub_flag(vx, vy) == IF vx > vy THEN 1 ELSE 0
subn_flag(vx, vy) == IF vy > vx THEN 1 ELSE 0
shr_flag(vx) == BitAnd(vx, 1)
\* variant: the flag is normalized to 1
shl_flag_normalized(vx) == IF BitAnd(vx, \h80) # 0 THEN 1 ELSE 0
shl_flag(vx) == BitAnd(vx, \h80)

\* the values the 0x8 family computes for Vx
wrapping_add(a, b) == (a + b) % U8
\* variant: the subtraction saturates at 0
wrapping_sub_saturating(a, b) == IF a >= b THEN a - b ELSE 0
wrapping_sub(a, b) == (a - b + U8) % U8
wrapping_div(a, b) == a \div b
wrapping_mul(a, b) == (a * b) % U8

\* 8xy_ - register-register operations: the flag is written first, then Vx
exec_8(c, i) ==
    LET vy == c.v[I_y(i)]
        x == I_x(i)
        vx == c.v[x]
        z == I_z(i)
        Set(flagged, value) == next([flagged EXCEPT !.v[x] = value])
    IN CASE z = 0 -> Set(c, vy)
         [] z = 1 -> Set(c, BitOr(vx, vy))
         [] z = 2 -> Set(c, BitAnd(vx, vy))
         [] z = 3 -> Set(c, BitXor(vx, vy))
         [] z = 4 -> Set([c EXCEPT !.v[\hF] = add_flag(vx, vy)], wrapping_add(vx, vy))
         [] z = 5 -> Set([c EXCEPT !.v[\hF] = sub_flag(vx, vy)], wrapping_sub(vx, vy))
         [] z = 6 -> Set([c EXCEPT !.v[\hF] = shr_flag(vx)], wrapping_div(vx, 2))
         [] z = 7 -> Set([c EXCEPT !.v[\hF] = subn_flag(vx, vy)], wrapping_sub(vy, vx))
         [] z = \hE -> Set([c EXCEPT !.v[\hF] = shl_flag(vx)], wrapping_mul(vx, 2))
         [] OTHER -> Panic(c, BAD_MSG)

\* Dxyz - DRW: the sprite is the slice ram[from..to], taken before anything is drawn
exec_D(c, i) ==
    LET vx == c.v[I_x(i)]
        vy == c.v[I_y(i)]
        z == I_z(i)
        from == c.i
        to == IF z = 0 THEN from + 32 ELSE from + z
    IN IF to > RAM_SIZE
       THEN Panic(c, INDEX_MSG)
       ELSE LET memory == [k \in 1 .. to - from |-> c.ram[from + k - 1]]
                b == IF z = 0
                     THEN schip_draw(c.display, vx, vy, memory)
                     ELSE draw(c.display, vx, vy, memory)
            IN IF b.panic # ""
               THEN Panic([c EXCEPT !.display = b.display], b.panic)
               ELSE next([c EXCEPT !.display = b.display,
                                   !.v[\hF] = IF b.pixel_turned_off THEN 1 ELSE 0])

\* Ex9E / ExA1 - skip on key state
exec_E(c, i) ==
    LET k == key_pressed(c, c.v[I_x(i)])
    IN CASE I_yz(i) = \h9E -> IF k.panic # "" THEN k ELSE skip_if(c, k.ret)
         [] I_yz(i) = \hA1 -> IF k.panic # "" THEN k ELSE skip_if(c, ~k.ret)
         [] OTHER -> bad(c, i)

\* Fx0A - LD Vx, K: the three-state key wait; pc is rewound while no key has arrived
\* variant: the program counter is not rewound while waiting
exec_Fx0A_no_rewind(c, i) ==
    LET kw == c.keyboard.keywait
        c1 == CASE kw = KeyWait_None -> [c EXCEPT !.keyboard.keywait = KeyWait_Wait]
                [] kw = KeyWait_Wait -> c
                [] OTHER -> [c EXCEPT !.v[I_x(i)] = kw[2]]
    IN IF kw[1] = "Pressed"
       THEN Ok([c1 EXCEPT !.keyboard.keywait = KeyWait_None], 0)
       ELSE Ok(c1, 0)

\* variant: the wait ends as soon as some key is down, with the lowest such key
exec_Fx0A_polls_keys(c, i) ==
    LET down == {k \in 0 .. NUM_KEYS - 1 : c.keyboard.keys[k]}
    IN IF down # {}
       THEN Ok([c EXCEPT !.v[I_x(i)] = CHOOSE k \in down : \A j \in down : k <= j,
                         !.keyboard.keywait = KeyWait_None], 0)
       ELSE Ok([c EXCEPT !.keyboard.keywait = KeyWait_Wait, !.pc = c.pc - 2], 0)
exec_Fx0A(c, i) ==
    LET kw == c.keyboard.keywait
        found == kw[1] = "Pressed"
        c1 == CASE kw = KeyWait_None -> [c EXCEPT !.keyboard.keywait = KeyWait_Wait]
                [] kw = KeyWait_Wait -> c
                [] OTHER -> [c EXCEPT !.v[I_x(i)] = kw[2]]
    IN IF found
       THEN Ok([c1 EXCEPT !.keyboard.keywait = KeyWait_None], 0)
       ELSE LET r == CheckedSub(c1.pc, 2, U16)
            IN IF r.overflow /\ overflow_checks
               THEN Panic(c1, OVERFLOW_MSG)
               ELSE Ok([c1 EXCEPT !.pc = r.value], 0)

\* Fx33 - BCD: three single-byte stores, each bounds-checked when it is made
exec_Fx33(c, i) ==
    LET vx == c.v[I_x(i)]
        s1 == ram_s(c, c.i, (vx \div 100) % 10)
        s2 == ram_s(s1.cpu, c.i + 1, (vx \div 10) % 10)
        s3 == ram_s(s2.cpu, c.i + 2, vx % 10)
    IN IF s1.panic # "" THEN s1
       ELSE IF s2.panic # "" THEN s2
       ELSE s3

\* Fx55 / Fx65 - block transfer through slices, bounds-checked before the copy
\* variant: I is left behind the block, as on the original interpreter
exec_Fx55_advances_i(c, i) ==
    LET x == I_x(i) + 1
    IN IF c.i + x > RAM_SIZE
       THEN Panic(c, INDEX_MSG)
       ELSE Ok([c EXCEPT !.ram = [a \in 0 .. RAM_SIZE - 1 |->
                                     IF a >= c.i /\ a < c.i + x THEN c.v[a - c.i] ELSE c.ram[a]],
                         !.i = c.i + x], 0)
exec_Fx55(c, i) ==
    LET x == I_x(i) + 1
    IN IF c.i + x > RAM_SIZE
       THEN Panic(c, INDEX_MSG)
       ELSE Ok([c EXCEPT !.ram = [a \in 0 .. RAM_SIZE - 1 |->
                   IF a >= c.i /\ a < c.i + x THEN c.v[a - c.i] ELSE c.ram[a]]], 0)

exec_Fx65(c, i) ==
    LET x == I_x(i) + 1
    IN IF c.i + x > RAM_SIZE
       THEN Panic(c, INDEX_MSG)
       ELSE Ok([c EXCEPT !.v = [r \in 0 .. NUM_REGISTERS - 1 |->
                   IF r < x THEN c.ram[c.i + r] ELSE c.v[r]]], 0)

\* Fx75 / Fx85 - SCHIP flag bank
\* variant: an x above 7 saves the 8 registers there are slots for
exec_Fx75_truncates(c, i) ==
    LET x == I_x(i) + 1
    IN Ok([c EXCEPT !.flag = [r \in 0 .. NUM_FLAG_REGISTERS - 1 |->
              IF r < x THEN c.v[r] ELSE c.flag[r]]], 0)
exec_Fx75(c, i) ==
    LET x == I_x(i) + 1
    IN IF x > NUM_FLAG_REGISTERS
       THEN Panic(c, FX75_MSG)
       ELSE Ok([c EXCEPT !.flag = [r \in 0 .. NUM_FLAG_REGISTERS - 1 |->
                   IF r < x THEN c.v[r] ELSE c.flag[r]]], 0)

exec_Fx85(c, i) ==
    LET x == I_x(i) + 1
    IN IF x > NUM_FLAG_REGISTERS
       THEN Panic(c, FX85_MSG)
       ELSE Ok([c EXCEPT !.v = [r \in 0 .. NUM_REGISTERS - 1 |->
                   IF r < x THEN c.flag[r] ELSE c.v[r]]], 0)

\* Fx1E - ADD I, Vx (u16 +=) and Fx29 - font address (u8 multiplication, then widened)
exec_Fx1E(c, i) ==
    LET r == CheckedAdd(c.i, c.v[I_x(i)], U16)
    IN IF r.overflow /\ overflow_checks THEN Panic(c, OVERFLOW_MSG)
       ELSE Ok([c EXCEPT !.i = r.value], 0)

exec_Fx29(c, i) ==
    LET r == CheckedMul(c.v[I_x(i)], 5, U8)
    IN IF r.overflow /\ overflow_checks THEN Panic(c, OVERFLOW_MSG)
       ELSE Ok([c EXCEPT !.i = r.value], 0)

\* 0xF family: the matched arm runs, then self.next()
exec_F(c, i) ==
    LET yz == I_yz(i)
        x == I_x(i)
        body == CASE yz = \h07 -> Ok([c EXCEPT !.v[x] = c.delay], 0)
                  [] yz = \h0A -> exec_Fx0A(c, i)
                  [] yz = \h15 -> Ok([c EXCEPT !.delay = c.v[x]], 0)
                  [] yz = \h18 -> Ok([c EXCEPT !.sound = c.v[x]], 0)
                  [] yz = \h1E -> exec_Fx1E(c, i)
                  [] yz = \h29 -> exec_Fx29(c, i)
                  [] yz = \h30 -> Ok([c EXCEPT !.i = SMALL_SPRITE_LEN + c.v[x] * 10], 0)
                  [] yz = \h33 -> exec_Fx33(c, i)
                  [] yz = \h55 -> exec_Fx55(c, i)
                  [] yz = \h65 -> exec_Fx65(c, i)
                  [] yz = \h75 -> exec_Fx75(c, i)
                  [] yz = \h85 -> exec_Fx85(c, i)
                  [] OTHER -> bad(c, i)
    IN IF body.panic # "" THEN body ELSE next(body.cpu)

\* rnd is the byte the injected Rand returns (used by Cxyz only)
execute_instruction(c, i, rnd) ==
    LET w == I_w(i)
        x == I_x(i)
    IN CASE w = 0 -> exec_0(c, i)
         [] w = 1 -> Ok(c, I_xyz(i))
         [] w = 2 -> exec_2(c, i)
         [] w = 3 -> skip_if(c, c.v[x] = I_yz(i))
         [] w = 4 -> skip_if(c, c.v[x] # I_yz(i))
         [] w = 5 -> IF I_z(i) = 0 THEN skip_if(c, c.v[x] = c.v[I_y(i)]) ELSE bad(c, i)
         [] w = 6 -> next([c EXCEPT !.v[x] = I_yz(i)])
         [] w = 7 -> exec_7(c, i)
         [] w = 8 -> exec_8(c, i)
         [] w = 9 -> IF I_z(i) = 0 THEN skip_if(c, c.v[x] # c.v[I_y(i)]) ELSE bad(c, i)
         [] w = \hA -> next([c EXCEPT !.i = I_xyz(i)])
         [] w = \hB -> Ok(c, c.v[0] + I_xyz(i))
         [] w = \hC -> next([c EXCEPT !.v[x] = BitAnd(rnd, I_yz(i))])
         [] w = \hD -> exec_D(c, i)
         [] w = \hE -> exec_E(c, i)
         [] OTHER -> exec_F(c, i)

\* Cpu::execute_next_instruction: fetch, execute, store the returned pc
execute_next_instruction(c, rnd) ==
    LET f == next_instruction(c)
    IN IF f.panic # "" THEN f
       ELSE LET r == execute_instruction(c, f.ret, rnd)
            IN IF r.panic # "" THEN r
               ELSE Ok([r.cpu EXCEPT !.pc = r.ret], 0)

(***************************************************************************)
(* Clocks: Timer::set_rate_hz, Timer::num_cycles, the clock rate of the    *)
(* Cpu, Cpu::cycle and Cpu::cycle_60hz (lib.rs 140-157, 301-344).          *)
(* Times are nanoseconds; elapsed times never run backwards (Instant is    *)
(* monotonic, and reset zeroes both stamps when it restarts the clock).    *)
(***************************************************************************)
Timer_set_rate_hz(timer, rate_hz) ==
    [timer EXCEPT !.cycle_every_nanos = NANOS_PER_SEC \div rate_hz]

\* variant: the stamp advances by the whole periods counted, keeping the remainder
num_cycles_keeps_remainder(timer, total_elapsed_nanos) ==
    LET nanos_since_last_cycle == total_elapsed_nanos - timer.last_cycle_timestamp
        num_instructions == nanos_since_last_cycle \div timer.cycle_every_nanos
    IN [timer |-> [timer EXCEPT !.last_cycle_timestamp =
                                    @ + num_instructions * timer.cycle_every_nanos],
        count |-> num_instructions,
        panic |-> ""]
\* variant: a started period counts as a whole one
num_cycles_rounds_up(timer, total_elapsed_nanos) ==
    LET nanos_since_last_cycle == total_elapsed_nanos - timer.last_cycle_timestamp
        num_instructions == (nanos_since_last_cycle + timer.cycle_every_nanos - 1)
                                \div timer.cycle_every_nanos
    IN [timer |-> IF num_instructions > 0
                  THEN [timer EXCEPT !.last_cycle_timestamp = total_elapsed_nanos]
                  ELSE timer,
        count |-> num_instructions,
        panic |-> ""]
\* Timer::num_cycles: the timer afterwards and the length of the range returned; the
\* division panics when the period is 0 (a rate above NANOS_PER_SEC)
num_cycles(timer, total_elapsed_nanos) ==
    IF timer.cycle_every_nanos = 0
    THEN [timer |-> timer, count |-> 0, panic |-> DIV_ZERO_MSG]
    ELSE LET nanos_since_last_cycle == total_elapsed_nanos - timer.last_cycle_timestamp
             num_instructions == nanos_since_last_cycle \div timer.cycle_every_nanos
         IN [timer |-> IF num_instructions > 0
                       THEN [timer EXCEPT !.last_cycle_timestamp = total_elapsed_nanos]
                       ELSE timer,
             count |-> num_instructions,
             panic |-> ""]

\* variant: the ratio of instructions per decrement is left as it was
set_clock_rate_hz_keeps_ratio(c, rate_hz) ==
    Ok([c EXCEPT !.clock_rate_hz = rate_hz,
                 !.cpu_timer = Timer_set_rate_hz(c.cpu_timer, rate_hz)], 0)
\* Cpu::set_clock_rate_hz: rate, ratio, then the period (whose division panics for 0)
set_clock_rate_hz(c, rate_hz) ==
    LET c1 == [c EXCEPT !.clock_rate_hz = rate_hz,
                        !.num_instructions_per_decrement = rate_hz \div DELAY_DECREMENT_HZ]
    IN IF rate_hz = 0
       THEN Panic(c1, DIV_ZERO_MSG)
       ELSE Ok([c1 EXCEPT !.cpu_timer = Timer_set_rate_hz(c.cpu_timer, rate_hz)], 0)

I32_MAX == 2147483647

\* i32::wrapping_add, computed without leaving the 32-bit range
wrapping_add_i32(a, b) ==
    IF b > 0 /\ a > I32_MAX - b
    THEN (a - I32_MAX - 1) + (b - I32_MAX - 1)
    ELSE IF b < 0 /\ a < (-I32_MAX - 1) - b
         THEN (a + I32_MAX + 1) + (b + I32_MAX + 1)
         ELSE a + b

\* variant: every positive sum is applied
inc_clock_rate_hz_positive(c, amount) ==
    LET new_rate == wrapping_add_i32(c.clock_rate_hz, amount)
    IN IF new_rate > 0
       THEN set_clock_rate_hz(c, new_rate)
       ELSE Ok(c, 0)

\* Cpu::inc_clock_rate_hz (rates up to I32_MAX: `as i32` keeps them)
inc_clock_rate_hz(c, amount) ==
    LET new_rate == wrapping_add_i32(c.clock_rate_hz, amount)
    IN IF new_rate >= DELAY_DECREMENT_HZ
       THEN set_clock_rate_hz(c, new_rate)
       ELSE Ok(c, 0)

\* what a driving call did: the timer decrements and the instructions it ran to the end
Did(decrements, instructions) == [decrements |-> decrements, instructions |-> instructions]

\* the element of a one-element set: in { e(x) : x \in {v} } the value v is computed once,
\* however often e uses it
Only(S) == CHOOSE x \in S : TRUE

RECURSIVE decrement_n(_, _)
\* `for _ in range { self.decrement_timers() }`
decrement_n(c, n) ==
    IF n = 0
    THEN c
    ELSE Only({ decrement_n(c1, n - 1) : c1 \in {decrement_timers(c)} })

RECURSIVE execute_n(_, _, _, _)
\* `for _ in range { self.execute_next_instruction() }`: a panic ends the loop
execute_n(c, n, rnd, done) ==
    IF n = 0
    THEN [cpu |-> c, done |-> done, panic |-> ""]
    ELSE Only({ IF r.panic # ""
                THEN [cpu |-> r.cpu, done |-> done, panic |-> r.panic]
                ELSE execute_n(r.cpu, n - 1, rnd, done + 1)
                : r \in {execute_next_instruction(c, rnd)} })

\* variant: the due instructions run before the due decrements
cycle_instructions_first(c, total_elapsed_nanos, rnd) ==
    LET d == num_cycles(c.delay_timer, total_elapsed_nanos)
        e == num_cycles(c.cpu_timer, total_elapsed_nanos)
        r == execute_n([c EXCEPT !.delay_timer = d.timer, !.cpu_timer = e.timer],
                       e.count, rnd, 0)
    IN IF d.panic # "" THEN [cpu |-> c, ret |-> Did(0, 0), panic |-> d.panic]
       ELSE IF e.panic # "" THEN [cpu |-> c, ret |-> Did(0, 0), panic |-> e.panic]
       ELSE IF r.panic # "" THEN [cpu |-> r.cpu, ret |-> Did(0, r.done), panic |-> r.panic]
       ELSE [cpu |-> decrement_n(r.cpu, d.count), ret |-> Did(d.count, r.done), panic |-> ""]

\* Cpu::cycle at total_elapsed_nanos = start_time.elapsed()
cycle(c, total_elapsed_nanos, rnd) ==
    LET d == num_cycles(c.delay_timer, total_elapsed_nanos)
        c1 == decrement_n([c EXCEPT !.delay_timer = d.timer], d.count)
        e == num_cycles(c1.cpu_timer, total_elapsed_nanos)
        r == execute_n([c1 EXCEPT !.cpu_timer = e.timer], e.count, rnd, 0)
    IN IF d.panic # "" THEN [cpu |-> c, ret |-> Did(0, 0), panic |-> d.panic]
       ELSE IF e.panic # "" THEN [cpu |-> c1, ret |-> Did(d.count, 0), panic |-> e.panic]
       ELSE [cpu |-> r.cpu, ret |-> Did(d.count, r.done), panic |-> r.panic]

\* variant: the timers are decremented after the instructions
cycle_60hz_decrements_last(c, rnd) ==
    LET r == execute_n(c, c.num_instructions_per_decrement, rnd, 0)
    IN [cpu |-> IF r.panic = "" THEN decrement_timers(r.cpu) ELSE r.cpu,
        ret |-> Did(1, r.done), panic |-> r.panic]
\* Cpu::cycle_60hz
cycle_60hz(c, rnd) ==
    LET r == execute_n(decrement_timers(c), c.num_instructions_per_decrement, rnd, 0)
    IN [cpu |-> r.cpu, ret |-> Did(1, r.done), panic |-> r.panic]

(***************************************************************************)
(* The host's calls (oxi8_quicksilver/src/main.rs, oxi8_kiss3d/src/main.rs)*)
(* A panic ends the process: no call is made after one.                    *)
(***************************************************************************)
SCALE_FACTOR == 8

\* the bytes an injected Rand may return: ConstantRand's 4 and the extremes of ThreadRand
RandValues == {0, 1, 4, 255}

\* the opcode at pc, or -1 when pc is outside the memory
Fetched(c) == IF next_instruction(c).panic = "" THEN Opcode(next_instruction(c).ret) ELSE -1

IsFx0A(opcode) == opcode >= 0 /\ opcode \div 4096 = 15 /\ opcode % 256 = 10

\* the rom of a program given as its 16-bit opcodes, high byte first
Bytes(ops) ==
    [k \in 1 .. 2 * Len(ops) |->
        IF k % 2 = 1 THEN ops[(k + 1) \div 2] \div 256 ELSE ops[k \div 2] % 256]

\* the state after Cpu::new(rom, BoolDisplay::new(SCALE_FACTOR), rand), in either build
Boot(rom) ==
    /\ cpu = Cpu_new(rom, BoolDisplay_new(SCALE_FACTOR), 0)
    /\ panic = ""
    /\ op = <<"new">>
    /\ returned = 0
    /\ pre = cpu
    /\ hist = [pushed |-> <<>>, popped |-> -1]
    /\ now = 0
    /\ overflow_checks \in BOOLEAN

\* the history after a call: what an ideal LIFO of return addresses would hold
HistPop(h) ==
    IF h.pushed = <<>>
    THEN [pushed |-> <<>>, popped |-> -1]
    ELSE [pushed |-> SubSeq(h.pushed, 1, Len(h.pushed) - 1),
          popped |-> h.pushed[Len(h.pushed)]]

HistPush(h, value) == [pushed |-> Append(h.pushed, value), popped |-> -1]

HistAfter(name, result) ==
    CASE name[1] = "execute_next_instruction" /\ result.panic = "" /\ name[2] \div 4096 = 2
            -> HistPush(hist, cpu.pc)
      [] name[1] = "execute_next_instruction" /\ result.panic = "" /\ name[2] = \h00EE
            -> HistPop(hist)
      [] name[1] = "Stack::push" /\ result.ret = <<"Some">> -> HistPush(hist, name[2])
      [] name[1] = "Stack::pop" /\ result.ret[1] = "Some" -> HistPop(hist)
      [] name[1] \in {"reset", "Stack::clear"} -> [pushed |-> <<>>, popped |-> -1]
      [] OTHER -> [hist EXCEPT !.popped = -1]

\* common tail of every call: record the call, what it returned and the state it was made in
Called(name, result) ==
    /\ cpu' = result.cpu
    /\ panic' = result.panic
    /\ op' = name
    /\ returned' = result.ret
    /\ pre' = cpu
    /\ hist' = HistAfter(name, result)
    /\ UNCHANGED <<now, overflow_checks>>

ExecuteNextInstruction ==
    /\ panic = ""
    /\ \E rnd \in IF Fetched(cpu) \div 4096 = 12 THEN RandValues ELSE {4} :
          Called(<<"execute_next_instruction", Fetched(cpu)>>,
                 execute_next_instruction(cpu, rnd))

ToggleKey(key, pressed) ==
    /\ panic = ""
    /\ Called(<<"toggle_key", key, pressed>>,
              Ok([cpu EXCEPT !.keyboard = toggle_key(cpu.keyboard, key, pressed)], 0))

Reset ==
    /\ panic = ""
    /\ Called(<<"reset">>, Ok(reset(cpu, now), 0))

\* the bytes the Rand gives to the instructions a driving call runs
LoopRand == 4

\* wall-clock time passes; MaxNow bounds the run
MaxNow == 20000000
Tick(dt) ==
    /\ panic = ""
    /\ now + dt <= MaxNow
    /\ now' = now + dt
    /\ UNCHANGED <<cpu, panic, op, returned, pre, hist, overflow_checks>>

\* cpu.cycle() (oxi8_kiss3d): start_time.elapsed() is now - start_time
Cycle ==
    /\ panic = ""
    /\ Called(<<"cycle", now - cpu.start_time>>, cycle(cpu, now - cpu.start_time, LoopRand))

\* cpu.cycle_60hz() (oxi8_quicksilver)
CycleSixty ==
    /\ panic = ""
    /\ Called(<<"cycle_60hz">>, cycle_60hz(cpu, LoopRand))

\* cpu.decrement_timers() (oxi8_quicksilver, single-stepping)
DecrementTimers ==
    /\ panic = ""
    /\ Called(<<"decrement_timers">>, Ok(decrement_timers(cpu), Did(1, 0)))

SetClockRate(rate_hz) ==
    /\ panic = ""
    /\ Called(<<"set_clock_rate_hz", rate_hz>>, set_clock_rate_hz(cpu, rate_hz))

IncClockRate(amount) ==
    /\ panic = ""
    /\ Called(<<"inc_clock_rate_hz", amount>>, inc_clock_rate_hz(cpu, amount))

(***************************************************************************)
(* SpecKey: a program waiting for keys, a host pressing and releasing them *)
(***************************************************************************)
MaxKey == 1
Keys == 0 .. MaxKey

\* 0x200: F30A  LD V3, K      0x202: 1200  JP 0x200
ROM_KEY_LOOP == Bytes(<<\hF30A, \h1200>>)

\* a program that writes F30A to address 0 and jumps there:
\* 0x200: 60F3  0x202: 610A  0x204: A000  0x206: F155  0x208: 1000
ROM_KEY_LOW == Bytes(<<\h60F3, \h610A, \hA000, \hF155, \h1000>>)

InitKey == \E rom \in {ROM_KEY_LOOP, ROM_KEY_LOW} : Boot(rom)

NextKey ==
    \/ ExecuteNextInstruction
    \/ \E key \in Keys, pressed \in BOOLEAN : ToggleKey(key, pressed)
    \/ Reset

SpecKey == InitKey /\ [][NextKey]_vars

(***************************************************************************)
(* SpecStack: the Stack of a new Cpu driven through push, pop and clear    *)
(***************************************************************************)
StackPush(value) ==
    /\ panic = ""
    /\ LET p == Stack_push(cpu.stack, value)
       IN Called(<<"Stack::push", value>>,
                 [cpu |-> [cpu EXCEPT !.stack = p.stack], ret |-> p.result, panic |-> ""])

StackPop ==
    /\ panic = ""
    /\ LET p == Stack_pop(cpu.stack)
       IN Called(<<"Stack::pop">>,
                 [cpu |-> [cpu EXCEPT !.stack = p.stack], ret |-> p.result, panic |-> ""])

StackClear ==
    /\ panic = ""
    /\ Called(<<"Stack::clear">>, Ok([cpu EXCEPT !.stack = Stack_clear(cpu.stack)], 0))

\* the values pushed at depth sp: one that identifies the depth and, in the lowest
\* MaxVaried slots, the largest u16 as well
MaxVaried == 1
PushValues(sp) ==
    {PROGRAM_OFFSET + 2 * sp} \cup (IF sp < MaxVaried THEN {U16 - 1 - sp} ELSE {})

InitStack == Boot(<<>>)

NextStack ==
    \/ \E value \in PushValues(cpu.stack.sp) : StackPush(value)
    \/ StackPop
    \/ StackClear

SpecStack == InitStack /\ [][NextStack]_vars

(***************************************************************************)
(* SpecCall: two subroutines calling each other, each deciding by a random *)
(* bit whether to return or to call deeper                                 *)
(***************************************************************************)
\* 0x200 A: C001  RND V0, 1        0x20A B: C001  RND V0, 1
\* 0x202:   4000  SNE V0, 0        0x20C:   4000  SNE V0, 0
\* 0x204:   00EE  RET              0x20E:   00EE  RET
\* 0x206:   220A  CALL B           0x210:   2200  CALL A
\* 0x208:   1200  JP A             0x212:   120A  JP B
ROM_CALL == Bytes(<<\hC001, \h4000, \h00EE, \h220A, \h1200,
                    \hC001, \h4000, \h00EE, \h2200, \h120A>>)

InitCall == Boot(ROM_CALL)

NextCall == ExecuteNextInstruction

SpecCall == InitCall /\ [][NextCall]_vars

(***************************************************************************)
(* SpecFault: programs that end in a fatal condition, and programs that    *)
(* draw a glyph and then execute one opcode of the 0x0 family's neighbours *)
(***************************************************************************)
\* the opcodes tried after the glyph is drawn: 00B0..00FF and 01A0..01CF
FaultOpcodes == (\h00B0 .. \h00FF) \cup (\h01A0 .. \h01CF)

\* A000 LD I, 0 (the glyph "0");  D005 DRW V0, V0, 5;  then the opcode
GlyphThen(opcode) == Bytes(<<\hA000, \hD005, opcode>>)

FaultRoms ==
    { Bytes(<<\h2200>>),                    \* CALL self: the 17th overflows the stack
      Bytes(<<\h00EE>>),                    \* RET on an empty stack
      Bytes(<<\h0000>>),                    \* FREEZE
      Bytes(<<\h00FD>>),                    \* EXIT
      Bytes(<<\h5001>>), Bytes(<<\h8008>>), Bytes(<<\h9001>>),
      Bytes(<<\hE000>>), Bytes(<<\hF0FF>>), \* unrecognized encodings
      Bytes(<<\h6709, \hF775>>),            \* flag bank, x = 7: allowed
      Bytes(<<\h6709, \hF875>>),            \* flag bank, x = 8
      Bytes(<<\hF885>>),
      Bytes(<<\hAFFD, \h607B, \hF033>>),    \* BCD of 123 at 4093..4095: fits
      Bytes(<<\hAFFE, \h607B, \hF033>>),    \* BCD of 123 at 4094..4096
      Bytes(<<\hAFFF, \h607B, \hF033>>),    \* BCD of 123 at 4095..4097
      Bytes(<<\hAFFF, \h6107, \hF155>>),    \* store V0..V1 at 4095..4096
      Bytes(<<\hAFFF, \hF165>>),            \* load V0..V1 from 4095..4096
      Bytes(<<\hAFFF, \hD002>>),            \* 2-byte sprite at 4095..4096
      Bytes(<<\hAFF0, \hD000>>),            \* 32-byte sprite at 4080..4111
      Bytes(<<\h6010, \hE09E>>),            \* key 16
      Bytes(<<\h60FF, \hBFFF>>) }           \* jump past the memory
    \cup { GlyphThen(opcode) : opcode \in FaultOpcodes }

InitFault == \E rom \in FaultRoms : Boot(rom)

NextFault == ExecuteNextInstruction

SpecFault == InitFault /\ [][NextFault]_vars

(***************************************************************************)
(* SpecAlu: programs that load two registers and execute one arithmetic    *)
(* instruction on them                                                     *)
(***************************************************************************)
AluRegs == {0, 14, 15}
ByteSamples == {0, 1, 128, 255}
AluOps == {4, 5, 6, 7, \hE}

\* 6xkk LD Vx, kk
LD(x, kk) == \h6000 + 256 * x + kk

AluRoms ==
    { Bytes(<<LD(x, a), LD(y, b), \h8000 + 256 * x + 16 * y + z>>) :
        x \in AluRegs, y \in AluRegs, a \in ByteSamples, b \in ByteSamples, z \in AluOps }
    \cup { Bytes(<<LD(x, a), \h7000 + 256 * x + kk>>) :
        x \in AluRegs, a \in ByteSamples, kk \in ByteSamples }

InitAlu == \E rom \in AluRoms : Boot(rom)

NextAlu == ExecuteNextInstruction

SpecAlu == InitAlu /\ [][NextAlu]_vars

(***************************************************************************)
(* SpecDraw: programs that draw a glyph at the origin, then draw a sprite  *)
(* of n bytes twice at one position, in low-res or hi-res                  *)
(***************************************************************************)
DrawPositions == {<<0, 0>>, <<2, 1>>, <<60, 30>>, <<124, 62>>, <<255, 255>>}
DrawLens == {1, 5, 15}

\* V0, V1 = the position;  00FF HIRES / 00FE LORES;  A000 D235: the glyph "0" at
\* (V2, V3) = (0, 0);  VF = 7;  A005: the sprite is the font bytes from 5 on
\* (20 60 20 20 70 F0 10 F0 80 F0 F0 10 F0 10 F0);  D01n twice
DrawRom(hi, pos, n) ==
    Bytes(<<LD(0, pos[1]), LD(1, pos[2]), IF hi THEN \h00FF ELSE \h00FE,
            \hA000, \hD235, LD(\hF, 7), \hA005, \hD010 + n, \hD010 + n>>)

DrawRoms == { DrawRom(hi, pos, n) : hi \in BOOLEAN, pos \in DrawPositions, n \in DrawLens }

InitDraw == \E rom \in DrawRoms : Boot(rom)

NextDraw == ExecuteNextInstruction

SpecDraw == InitDraw /\ [][NextDraw]_vars

(***************************************************************************)
(* SpecSchip: programs that draw a glyph at the origin and then a 16x16    *)
(* sprite (Dxy0) twice at one position, in low-res or hi-res               *)
(***************************************************************************)
SchipPositions == {<<0, 0>>, <<60, 20>>, <<120, 0>>, <<250, 255>>}
\* where the 32 bytes are read: the small font from 0 on, or the big font from 80 on
SchipSprites == {0, SMALL_SPRITE_LEN}

\* V0, V1 = the position;  00FF HIRES / 00FE LORES;  A000 D235: the glyph "0" at
\* (V2, V3) = (0, 0);  VF = 7;  Annn: I = the sprite;  D010 twice
SchipRom(hi, pos, at) ==
    Bytes(<<LD(0, pos[1]), LD(1, pos[2]), IF hi THEN \h00FF ELSE \h00FE,
            \hA000, \hD235, LD(\hF, 7), \hA000 + at, \hD010, \hD010>>)

SchipRoms ==
    { SchipRom(hi, pos, at) : hi \in BOOLEAN, pos \in SchipPositions, at \in SchipSprites }

InitSchip == \E rom \in SchipRoms : Boot(rom)

NextSchip == ExecuteNextInstruction

SpecSchip == InitSchip /\ [][NextSchip]_vars

(***************************************************************************)
(* SpecScroll: programs that choose a mode, draw a glyph at a corner and   *)
(* then execute two of the mode and scroll opcodes                         *)
(***************************************************************************)
\* next to the left edge, and the bottom right corner (the glyph wraps below the last row)
ScrollPositions == {<<1, 0>>, <<124, 62>>}
\* SCROLL_RIGHT, SCROLL_LEFT, LORES, HIRES, SCROLL_DOWN 0, 1, 5, 15
FirstOps == {\h00FB, \h00FC, \h00FE, \h00FF, \h00C0, \h00C1, \h00C5, \h00CF}
\* SCROLL_RIGHT, SCROLL_LEFT, HIRES, SCROLL_DOWN 2
SecondOps == {\h00FB, \h00FC, \h00FF, \h00C2}

\* V0, V1 = the position;  00FF HIRES / 00FE LORES;  A000 D015: the glyph "0";
\* then the two opcodes
ScrollRom(hi, pos, first, second) ==
    Bytes(<<LD(0, pos[1]), LD(1, pos[2]), IF hi THEN \h00FF ELSE \h00FE,
            \hA000, \hD015, first, second>>)

ScrollRoms ==
    { ScrollRom(hi, pos, first, second) :
        hi \in BOOLEAN, pos \in ScrollPositions, first \in FirstOps, second \in SecondOps }

InitScroll == \E rom \in ScrollRoms : Boot(rom)

NextScroll == ExecuteNextInstruction

SpecScroll == InitScroll /\ [][NextScroll]_vars

(***************************************************************************)
(* SpecClock: a program spinning on a jump, driven by cycle() at irregular *)
(* wall-clock times, at the default rate or at 1000 Hz                     *)
(***************************************************************************)
\* 0x200: 1200  JP 0x200
ROM_SPIN == Bytes(<<\h1200>>)

\* half a CPU period, one, and what is left of a 60 Hz period (16,666,667 ns) after one
ClockTicks == {1000000, 2000000, 14666667}
ClockRates == {1000}

InitClock == Boot(ROM_SPIN)

NextClock ==
    \/ \E dt \in ClockTicks : Tick(dt)
    \/ Cycle
    \/ \E rate_hz \in ClockRates : SetClockRate(rate_hz)

SpecClock == InitClock /\ [][NextClock]_vars

(***************************************************************************)
(* SpecDisplay: programs that choose a mode, draw a glyph and then execute *)
(* two of the opcodes that act on the display                              *)
(***************************************************************************)
\* DRW 5 rows, DRW 16x16, CLS, LORES, HIRES, SCROLL_RIGHT, SCROLL_LEFT, SCROLL_DOWN 15
DisplayOps == {\hD015, \hD010, \h00E0, \h00FE, \h00FF, \h00FB, \h00FC, \h00CF}

\* V0, V1 = (124, 62);  00FF HIRES / 00FE LORES;  A000 D015: the glyph "0";
\* then the two opcodes
DisplayRom(hi, first, second) ==
    Bytes(<<LD(0, 124), LD(1, 62), IF hi THEN \h00FF ELSE \h00FE,
            \hA000, \hD015, first, second>>)

DisplayRoms ==
    { DisplayRom(hi, first, second) :
        hi \in BOOLEAN, first \in DisplayOps, second \in DisplayOps }

InitDisplay == \E rom \in DisplayRoms : Boot(rom)

NextDisplay == ExecuteNextInstruction

SpecDisplay == InitDisplay /\ [][NextDisplay]_vars

(***************************************************************************)
(* SpecRate: a host that sets the clock rate and steps it up and down      *)
(***************************************************************************)
\* the rates a step may lead to are capped at MaxRate
MaxRate == 1000
\* the slowest rate, the two the host offers, the largest i32, one above NANOS_PER_SEC
SetRates == {DELAY_DECREMENT_HZ, 500, 1000, I32_MAX, NANOS_PER_SEC + 1}
\* the host's steps, a step below any rate, and one that overflows i32 from I32_MAX
IncAmounts == {10, -10, -2000, 2000000000}

InitRate == Boot(ROM_SPIN)

NextRate ==
    \/ \E rate_hz \in SetRates : SetClockRate(rate_hz)
    \/ \E amount \in IncAmounts :
          /\ wrapping_add_i32(cpu.clock_rate_hz, amount) <= MaxRate
          /\ IncClockRate(amount)

SpecRate == InitRate /\ [][NextRate]_vars

(***************************************************************************)
(* SpecSixty: a program that loads the delay and sound registers and then  *)
(* spins, driven by cycle_60hz, single steps and decrements at any rate    *)
(***************************************************************************)
\* the values loaded into the delay and the sound register
TimerLoads == {<<3, 1>>, <<0, 2>>}
\* where the program loads them, and where it spins
ADDR_LD_DT == PROGRAM_OFFSET + 2
ADDR_LD_ST == PROGRAM_OFFSET + 6
ADDR_SPIN == PROGRAM_OFFSET + 8

\* 0x200: 60vv  0x202: F015 LD DT, V0  0x204: 61vv  0x206: F118 LD ST, V1  0x208: 1208
TimerRom(load) == Bytes(<<LD(0, load[1]), \hF015, LD(1, load[2]), \hF118, \h1208>>)

SixtyRates == {DELAY_DECREMENT_HZ, 1000}
SixtyTicks == {16666667}

InitSixty == \E load \in TimerLoads : Boot(TimerRom(load))

NextSixty ==
    \/ CycleSixty
    \/ DecrementTimers
    \/ ExecuteNextInstruction
    \/ \E rate_hz \in SixtyRates : SetClockRate(rate_hz)
    \/ \E dt \in SixtyTicks : Tick(dt)

SpecSixty == InitSixty /\ [][NextSixty]_vars

(***************************************************************************)
(* SpecReset: a program that changes every part of the Cpu, a host that    *)
(* steps it, runs it by the clock, presses a key, changes the clock rate   *)
(* and resets at any moment                                                *)
(***************************************************************************)
\* 0x200: 6012  LD V0, 0x12    0x202: F015  LD DT, V0    0x204: F018  LD ST, V0
\* 0x206: 00FF / 00FE          0x208: A005  LD I, 5      0x20A: D005  DRW V0, V0, 5
\* 0x20C: F075  LD R, V0       0x20E: A200  LD I, 0x200
\* 0x210: F155  LD [I], V1 (the first instruction becomes 1200, a jump to itself)
\* 0x212: 2216  CALL 0x216     0x214: 1214               0x216: F00A  LD V0, K
\* 0x218: 1218  JP 0x218
ResetRom(hi) ==
    Bytes(<<LD(0, 18), \hF015, \hF018, IF hi THEN \h00FF ELSE \h00FE, \hA005, \hD005,
            \hF075, \hA200, \hF155, \h2216, \h1214, \hF00A, \h1218>>)

ResetKey == 1
ResetRates == {1000}
ResetTicks == {20000000}

\* no arithmetic of the program overflows: one build is enough
InitReset == \E hi \in BOOLEAN : Boot(ResetRom(hi)) /\ ~overflow_checks

NextReset ==
    \/ ExecuteNextInstruction
    \/ Reset
    \/ \E pressed \in BOOLEAN : ToggleKey(ResetKey, pressed)
    \/ \E rate_hz \in ResetRates : SetClockRate(rate_hz)
    \/ \E dt \in ResetTicks : Tick(dt)
    \/ Cycle

SpecReset == InitReset /\ [][NextReset]_vars

(***************************************************************************)
(* SpecSeq: programs that load a register and add a byte to it, some after *)
(* setting register 15                                                     *)
(***************************************************************************)
SeqRegs == {0, 14, 15}
SeqLoads == {0, 5, 255}
SeqAdds == {1, 3, 255}

\* 7xkk ADD Vx, kk
ADD(x, kk) == \h7000 + 256 * x + kk

SeqRoms ==
    { <<LD(x, a), ADD(x, kk)>> : x \in SeqRegs, a \in SeqLoads, kk \in SeqAdds }
    \cup { <<LD(15, 1), LD(x, a), ADD(x, kk)>> :
             x \in SeqRegs, a \in SeqLoads, kk \in SeqAdds }

InitSeq == \E ops \in SeqRoms : Boot(Bytes(ops))

NextSeq == ExecuteNextInstruction

SpecSeq == InitSeq /\ [][NextSeq]_vars

(***************************************************************************)
(* SpecFlag: programs that fill the flag bank, save V0..Vx over it, change *)
(* the registers and load V0..Vy back                                      *)
(***************************************************************************)
FlagRegs == {0, 1, 7, 8, 15}

\* Fx75 SAVE_FLAGS and Fx85 LOAD_FLAGS
SAVE(x) == \hF075 + 256 * x
LOAD(x) == \hF085 + 256 * x

\* V0, V1, V7 := base + 1, base + 2, base + 8
LoadThree(base) == <<LD(0, base + 1), LD(1, base + 2), LD(7, base + 8)>>

FlagRom(x, y) ==
    Bytes(LoadThree(0) \o <<SAVE(7)>> \o LoadThree(16) \o <<SAVE(x)>>
          \o LoadThree(32) \o <<LOAD(y)>>)

InitFlag == \E x \in FlagRegs, y \in FlagRegs : Boot(FlagRom(x, y))

NextFlag == ExecuteNextInstruction

SpecFlag == InitFlag /\ [][NextFlag]_vars

(***************************************************************************)
(* SpecBlock: programs that store V0..Vx at I, change the registers and    *)
(* fetch V0..Vy from I                                                     *)
(***************************************************************************)
BlockRegs == {0, 1, 15}
\* the font, scratch memory, the last 16 bytes and the last byte of the memory
BlockAddrs == {0, \h300, RAM_SIZE - 16, RAM_SIZE - 1}

\* Fx55 LD [I], Vx and Fx65 LD Vx, [I]
STORE(x) == \hF055 + 256 * x
FETCH(x) == \hF065 + 256 * x

\* V0, V1, VF := base + 1, base + 2, base + 16
LoadEnds(base) == <<LD(0, base + 1), LD(1, base + 2), LD(15, base + 16)>>

BlockRom(addr, x, y) ==
    Bytes(LoadEnds(0) \o <<\hA000 + addr, STORE(x)>> \o LoadEnds(32) \o <<FETCH(y)>>)

InitBlock ==
    \E addr \in BlockAddrs, x \in BlockRegs, y \in BlockRegs : Boot(BlockRom(addr, x, y))

NextBlock == ExecuteNextInstruction

SpecBlock == InitBlock /\ [][NextBlock]_vars

(***************************************************************************)
(* SpecFont: programs that load a register and take the address of its     *)
(* small and of its big glyph                                              *)
(***************************************************************************)
FontRegs == {0, 14}
\* digits, the last value whose product with 5 fits in a byte, and larger values
FontValues == {0, 1, 15, 16, 51, 52, 255}

\* Fx29 LD F, Vx and Fx30 LD HF, Vx
FONT(x) == \hF029 + 256 * x
BIGFONT(x) == \hF030 + 256 * x

FontRoms ==
    { <<LD(x, v), FONT(x), BIGFONT(x)>> : x \in FontRegs, v \in FontValues }
    \cup { <<LD(x, v), BIGFONT(x), FONT(x)>> : x \in FontRegs, v \in FontValues }

InitFont == \E ops \in FontRoms : Boot(Bytes(ops))

NextFont == ExecuteNextInstruction

SpecFont == InitFont /\ [][NextFont]_vars

(***************************************************************************)
(* SpecWait: a program with two key waits, driven by single steps, by      *)
(* cycle() and by cycle_60hz(), with keys pressed and released and resets  *)
(* at any moment                                                           *)
(***************************************************************************)
\* 0x200: 6105  LD V1, 5    0x202: F00A  LD V0, K    0x204: F20A  LD V2, K
\* 0x206: 1200  JP 0x200
ROM_WAIT == Bytes(<<LD(1, 5), \hF00A, \hF20A, \h1200>>)

WaitKeys == {1, 2}
WaitTicks == {20000000}

\* the program counter never leaves 0x200..0x206: one build is enough
InitWait == Boot(ROM_WAIT) /\ ~overflow_checks

NextWait ==
    \/ ExecuteNextInstruction
    \/ Cycle
    \/ CycleSixty
    \/ Reset
    \/ \E key \in WaitKeys, pressed \in BOOLEAN : ToggleKey(key, pressed)
    \/ \E dt \in WaitTicks : Tick(dt)

SpecWait == InitWait /\ [][NextWait]_vars

(***************************************************************************)
(* SpecSelf: a program that sets the delay timer and then reads it in a    *)
(* loop, driven by cycle() alone, at 500 Hz or after a change of the rate  *)
(***************************************************************************)
\* 0x200: 6005  LD V0, 5    0x202: F015  LD DT, V0    0x204: F107  LD V1, DT
\* 0x206: 1204  JP 0x204
ROM_SELF == Bytes(<<LD(0, 5), \hF015, \hF107, \h1204>>)
ADDR_SET_DT == PROGRAM_OFFSET + 2
ADDR_GET_DT == PROGRAM_OFFSET + 4

\* one CPU period at 500 Hz, and what is left of a 60 Hz period after one or two
SelfTicks == {2000000, 12666667, 14666667}
SelfRates == {DELAY_DECREMENT_HZ, 1000}

InitSelf == Boot(ROM_SELF) /\ ~overflow_checks

NextSelf ==
    \/ \E dt \in SelfTicks : Tick(dt)
    \/ Cycle
    \/ \E rate_hz \in SelfRates : SetClockRate(rate_hz)

SpecSelf == InitSelf /\ [][NextSelf]_vars

\* shorthands for the last call and the key-wait state around it
IsExec == op[1] = "execute_next_instruction"
IsToggle == op[1] = "toggle_key"
ExecFx0A == IsExec /\ IsFx0A(op[2])
WasPressed == pre.keyboard.keywait[1] = "Pressed"

\* C1: while no key is pressed, every execution of Fx0A from no-wait or waiting-for-key
\* leaves pc at the Fx0A instruction and the registers as they were, and leaves the wait
\* state waiting-for-key (the first one arms it, the later ones keep it); a key release
\* in between changes neither pc, nor the registers, nor the wait state.
C1_KeyWaitSpin ==
    /\ (ExecFx0A /\ pre.keyboard.keywait \in {KeyWait_None, KeyWait_Wait})
          => /\ cpu.pc = pre.pc
             /\ cpu.v = pre.v
             /\ cpu.keyboard.keywait = KeyWait_Wait
    /\ (IsToggle /\ ~op[3])
          => /\ cpu.pc = pre.pc
             /\ cpu.v = pre.v
             /\ cpu.keyboard.keywait = pre.keyboard.keywait

\* a second consecutive spin: Fx0A executed while already waiting, still waiting after it
C1_Witness ==
    /\ ExecFx0A
    /\ panic = ""
    /\ pre.keyboard.keywait = KeyWait_Wait
    /\ cpu.keyboard.keywait = KeyWait_Wait
    /\ cpu.pc = pre.pc

\* C2: a press of k while waiting-for-key latches k; no later toggle_key call (release of
\* k, press or release of another key) changes the latched key; the next Fx0A stores the
\* latched key in Vx, returns to no-wait and moves pc to the Fx0A address + 2; and Fx0A
\* moves pc only when it consumes a latched key, so once per press.
C2_KeyWaitCompletion ==
    /\ (IsToggle /\ op[3] /\ pre.keyboard.keywait = KeyWait_Wait)
          => cpu.keyboard.keywait = KeyWait_Pressed(op[2])
    /\ (IsToggle /\ WasPressed)
          => cpu.keyboard.keywait = pre.keyboard.keywait
    /\ (ExecFx0A /\ WasPressed)
          => /\ panic = ""
             /\ cpu.v[(op[2] \div 256) % 16] = pre.keyboard.keywait[2]
             /\ cpu.keyboard.keywait = KeyWait_None
             /\ cpu.pc = pre.pc + 2
    /\ (ExecFx0A /\ cpu.pc # pre.pc) => WasPressed

\* key 1 was pressed while waiting, released, key 0 pressed, and Fx0A then stored key 1
C2_Witness ==
    /\ ExecFx0A
    /\ pre.keyboard.keywait = KeyWait_Pressed(1)
    /\ ~pre.keyboard.keys[1]
    /\ pre.keyboard.keys[0]
    /\ cpu.v[3] = 1
    /\ cpu.pc = pre.pc + 2

\* C3: toggle_key(key, pressed) sets keys[key] and no other key; it changes the wait state
\* only from waiting-for-key on a press, to key-pressed(key); key-pressed is left only by
\* Fx0A or reset; the wait state is always one of the three kinds.
C3_ToggleKey ==
    /\ cpu.keyboard.keywait \in
          {KeyWait_None, KeyWait_Wait} \cup {KeyWait_Pressed(k) : k \in 0 .. NUM_KEYS - 1}
    /\ IsToggle
          => /\ cpu.keyboard.keys = [pre.keyboard.keys EXCEPT ![op[2]] = op[3]]
             /\ cpu.keyboard.keywait =
                   IF op[3] /\ pre.keyboard.keywait = KeyWait_Wait
                   THEN KeyWait_Pressed(op[2])
                   ELSE pre.keyboard.keywait
    /\ (WasPressed /\ cpu.keyboard.keywait # pre.keyboard.keywait)
          => (ExecFx0A \/ op[1] = "reset")

\* the latched key is released while another key is down: still latched
C3_Witness ==
    /\ IsToggle
    /\ ~op[3]
    /\ pre.keyboard.keywait = KeyWait_Pressed(op[2])
    /\ cpu.keyboard.keywait = KeyWait_Pressed(op[2])
    /\ \E k \in Keys : k # op[2] /\ cpu.keyboard.keys[k]

\* C7: push succeeds iff the depth is below 16 and pop iff it is above 0; a failed push
\* or pop leaves the stack pointer and every slot as they were; a pop returns the value
\* pushed last among those not yet popped; the depth is always within 0..16 and equals
\* the number of values pushed and not yet popped.
C7_Stack ==
    /\ cpu.stack.sp \in 0 .. STACK_SIZE
    /\ cpu.stack.sp = Len(hist.pushed)
    /\ op[1] = "Stack::push"
          => /\ (returned = <<"Some">>) <=> (pre.stack.sp < 16)
             /\ returned = <<"None">> => cpu.stack = pre.stack
             /\ returned = <<"Some">> => cpu.stack.sp = pre.stack.sp + 1
    /\ op[1] = "Stack::pop"
          => /\ (returned[1] = "Some") <=> (pre.stack.sp > 0)
             /\ returned = <<"None">> => cpu.stack = pre.stack
             /\ returned[1] = "Some"
                   => returned[2] = hist.popped /\ cpu.stack.sp = pre.stack.sp - 1

\* the stack was filled to 16 and popped back to empty: the last pop returns the first push
C7_Witness ==
    /\ op[1] = "Stack::pop"
    /\ returned = <<"Some", U16 - 1>>
    /\ cpu.stack.sp = 0
    /\ cpu.stack.stack[STACK_SIZE - 1] = PROGRAM_OFFSET + 2 * (STACK_SIZE - 1)

IsCall == IsExec /\ op[2] \div 4096 = 2
IsRet == IsExec /\ op[2] = \h00EE

\* C8: with fewer than 16 calls outstanding, 2nnn stores the address of the CALL itself in
\* the next stack slot and jumps to nnn; with 16 it is fatal. With a call outstanding,
\* 00EE resumes at the address of the matching CALL (the last one not yet returned from)
\* plus 2; with none it is fatal. After a fatal condition nothing is executed again.
C8_CallRet ==
    /\ IsCall
          => IF pre.stack.sp < 16
             THEN /\ panic = ""
                  /\ cpu.pc = op[2] % 4096
                  /\ cpu.stack.sp = pre.stack.sp + 1
                  /\ cpu.stack.stack[pre.stack.sp] = pre.pc
             ELSE panic = STACK_OVERFLOW_MSG
    /\ IsRet
          => IF pre.stack.sp > 0
             THEN /\ panic = ""
                  /\ cpu.pc = hist.popped + 2
                  /\ cpu.stack.sp = pre.stack.sp - 1
             ELSE panic = STACK_EMPTY_MSG
    /\ panic # "" => ~ENABLED ExecuteNextInstruction

\* a RET at nesting depth 16 resumes after the 16th CALL
C8_Witness ==
    /\ IsRet
    /\ panic = ""
    /\ pre.stack.sp = 16
    /\ cpu.pc = pre.stack.stack[15] + 2
    /\ pre.stack.stack[15] # pre.stack.stack[14]

\* C4 (as claimed): an instruction that ends in a fatal condition has modified nothing:
\* registers, memory, stack, display, keyboard and pc are as they were before it.
C4_FailureAtomic == (IsExec /\ panic # "") => cpu = pre

\* the encodings the specification lists as known
KnownEncoding(opcode) ==
    LET w == opcode \div 4096
        z == opcode % 16
        yz == opcode % 256
    IN \/ opcode \in {\h0000, \h00E0, \h00EE, \h00FB, \h00FC, \h00FD, \h00FE, \h00FF}
       \/ opcode \in \h00C0 .. \h00CF
       \/ w \in {1, 2, 3, 4, 6, 7, \hA, \hB, \hC, \hD}
       \/ w \in {5, 9} /\ z = 0
       \/ w = 8 /\ z \in (0 .. 7) \cup {\hE}
       \/ w = \hE /\ yz \in {\h9E, \hA1}
       \/ w = \hF /\ yz \in {\h07, \h0A, \h15, \h18, \h1E, \h29, \h30, \h33,
                             \h55, \h65, \h75, \h85}

\* C5 (as claimed): executing an opcode that is not a known encoding is the
\* invalid-instruction fatal condition, and leaves the display as it was.
C5_UnknownIsInvalid ==
    (IsExec /\ op[2] >= 0 /\ ~KnownEncoding(op[2]))
        => (panic = BAD_MSG /\ cpu.display = pre.display)

\* how a call ends, as its caller sees it
OutcomeKind(msg) == IF msg = "" THEN "returned" ELSE "panicked"

\* C6 (as claimed): executing 0000 or 00FD ends in an outcome of another kind than an
\* unrecognized encoding's, the two differ from each other, and neither is skipped over.
C6_HostControlDistinct ==
    (IsExec /\ op[2] \in {\h0000, \h00FD})
        => /\ OutcomeKind(panic) # OutcomeKind(bad(pre, InstructionOf(op[2])).panic)
           /\ panic # (IF op[2] = \h0000 THEN EXIT_MSG ELSE FREEZE_MSG)
           /\ ~(panic = "" /\ cpu.pc = pre.pc + 2)

\* the nibbles of the executed opcode and the operands before the instruction
OpW == op[2] \div 4096
OpX == (op[2] \div 256) % 16
OpY == (op[2] \div 16) % 16
OpZ == op[2] % 16
OpKK == op[2] % 256
PreVx == pre.v[OpX]
PreVy == pre.v[OpY]
IsAlu(z) == IsExec /\ op[2] >= 0 /\ OpW = 8 /\ OpZ = z
IsAddByte == IsExec /\ op[2] >= 0 /\ OpW = 7

\* C9: for every x and y, 7xkk, 8xy4, 8xy5, 8xy7, 8xy6 and 8xyE are never fatal, leave in
\* Vx (Vx+kk) mod 256, (Vx+Vy) mod 256, (Vx-Vy) mod 256, (Vy-Vx) mod 256, Vx div 2 and
\* (2*Vx) mod 256 of the values before the instruction, and advance pc by 2.
C9_ArithmeticWraps ==
    LET Done(value) == panic = "" /\ cpu.v[OpX] = value /\ cpu.pc = pre.pc + 2
    IN /\ IsAddByte => Done((PreVx + OpKK) % 256)
       /\ IsAlu(4) => Done((PreVx + PreVy) % 256)
       /\ IsAlu(5) => Done((PreVx - PreVy) % 256)
       /\ IsAlu(7) => Done((PreVy - PreVx) % 256)
       /\ IsAlu(6) => Done(PreVx \div 2)
       /\ IsAlu(\hE) => Done((2 * PreVx) % 256)

\* a subtraction into register 15 that wrapped below zero, in the build with overflow checks
C9_Witness ==
    /\ IsAlu(5) /\ OpX = 15 /\ PreVx < PreVy /\ overflow_checks
    /\ panic = "" /\ cpu.v[15] = PreVx - PreVy + 256

\* C10: for a destination x in 0..14 and every y, register 15 is after 8xy4 1 if
\* Vx+Vy > 255 and 0 otherwise, after 8xy5 1 if Vx > Vy and 0 otherwise (0 when they are
\* equal), after 8xy7 1 if Vy > Vx and 0 otherwise, of the values before the instruction.
C10_CarryBorrow ==
    LET Flag(cond) == cpu.v[15] = IF cond THEN 1 ELSE 0
    IN /\ (IsAlu(4) /\ OpX \in 0 .. 14) => Flag(PreVx + PreVy > 255)
       /\ (IsAlu(5) /\ OpX \in 0 .. 14) => Flag(PreVx > PreVy)
       /\ (IsAlu(7) /\ OpX \in 0 .. 14) => Flag(PreVy > PreVx)

\* 8xy5 on equal operands, the other one being register 15: the flag is 0
C10_Witness ==
    /\ IsAlu(5) /\ OpX \in 0 .. 14 /\ OpY = 15 /\ PreVx = PreVy /\ PreVx > 0
    /\ panic = "" /\ cpu.v[15] = 0

PrescribedFlag(z, vx, vy) ==
    CASE z = 4 -> IF vx + vy > 255 THEN 1 ELSE 0
      [] z = 5 -> IF vx > vy THEN 1 ELSE 0
      [] z = 6 -> vx % 2
      [] z = 7 -> IF vy > vx THEN 1 ELSE 0
      [] z = \hE -> IF vx >= 128 THEN 128 ELSE 0

\* C12 (as claimed): with the destination x = 15, register 15 holds after 8Fy4, 8Fy5,
\* 8Fy6, 8Fy7 and 8FyE the flag value prescribed for the opcode.
C12_FlagWhenDestinationIsF ==
    \A z \in AluOps :
        (IsAlu(z) /\ OpX = 15) => cpu.v[15] = PrescribedFlag(z, PreVx, PreVy)

\* Dxyn with n # 0 was executed; its sprite is the n bytes at I
IsDraw == IsExec /\ op[2] >= 0 /\ OpW = \hD /\ OpZ # 0
Sprite == [k \in 1 .. OpZ |-> pre.ram[pre.i + k - 1]]
SpriteBit(byte, b) == (byte \div (2 ^ (7 - b))) % 2

\* C13: after a draw, the same draw (same position, same sprite) gives back the display
\* as it was before the first one, at every position, wrapping ones included, in both
\* modes, and neither draw is fatal.
C13_DrawSelfInverse ==
    IsDraw => LET again == draw(cpu.display, PreVx, PreVy, Sprite)
              IN panic = "" /\ again.panic = "" /\ again.display = pre.display

\* a 15-byte sprite drawn in hi-res across the right and bottom edges onto its own image
C13_Witness ==
    /\ IsDraw /\ OpZ = 15 /\ PreVx = 124 /\ PreVy = 62 /\ cpu.display.hires
    /\ cpu.v[15] = 1
    /\ cpu.display # pre.display
    /\ draw(cpu.display, PreVx, PreVy, Sprite).display = pre.display

\* C14: Dxyn leaves 1 in register 15 if a sprite bit 1 landed on a set pixel (the pixel
\* went from 1 to 0) and 0 otherwise (pixels only turned on or left alone), whatever
\* register 15 held before.
C14_Collision ==
    IsDraw =>
        LET w == pre.display.width
            h == pre.display.height
            Hit == \E k \in 1 .. OpZ, b \in 0 .. 7 :
                       /\ SpriteBit(Sprite[k], b) = 1
                       /\ pre.display.buffer[(((PreVy % h) + k - 1) % h) + 1][((PreVx + b) % w) + 1]
            TurnedOff == \E r \in 1 .. h, c \in 1 .. w :
                             pre.display.buffer[r][c] /\ ~cpu.display.buffer[r][c]
        IN /\ cpu.v[15] = (IF Hit THEN 1 ELSE 0)
           /\ Hit <=> TurnedOff

\* register 15 held 7; the sprite turns pixels of the glyph off and on others: it is 1
C14_Witness ==
    /\ IsDraw /\ pre.v[15] = 7 /\ cpu.v[15] = 1
    /\ \E r \in 1 .. pre.display.height, c \in 1 .. pre.display.width :
           ~pre.display.buffer[r][c] /\ cpu.display.buffer[r][c]

\* Dxy0 was executed; its sprite is the 32 bytes at I: row pair k is bytes 2k and 2k+1
IsSchipDraw == IsExec /\ op[2] >= 0 /\ OpW = \hD /\ OpZ = 0
LeftByte(k) == pre.ram[pre.i + 2 * k]
RightByte(k) == pre.ram[pre.i + 2 * k + 1]
\* the pixel at column c (taken modulo the width) of the row k rows below Vy
PixelAt(d, c, k) == d.buffer[(((PreVy % d.height) + k) % d.height) + 1][(c % d.width) + 1]
\* the pixel at column c of that row is the old one XOR-ed with bit b of the byte
Blitted(c, k, byte, b) ==
    PixelAt(cpu.display, c, k) = (PixelAt(pre.display, c, k) # (SpriteBit(byte, b) = 1))
\* bit b of the byte is 1 and lands on a set pixel
Collides(c, k, byte, b) == SpriteBit(byte, b) = 1 /\ PixelAt(pre.display, c, k)

\* C15 (as claimed): Dxy0 blits all 16 row pairs: for every k in 0..15 byte 2k is XOR-ed
\* at column x of row (y + k) mod height (in hi-res byte 2k+1 at column x + 8 too), and
\* register 15 is the OR of the collisions of all 16 rows.
C15_SchipDrawsSixteenRows ==
    IsSchipDraw =>
        /\ panic = ""
        /\ \A k \in 0 .. 15, b \in 0 .. 7 :
               /\ Blitted(PreVx + b, k, LeftByte(k), b)
               /\ pre.display.hires => Blitted(PreVx + 8 + b, k, RightByte(k), b)
        /\ cpu.v[15] =
               IF \E k \in 0 .. 15, b \in 0 .. 7 :
                      \/ Collides(PreVx + b, k, LeftByte(k), b)
                      \/ pre.display.hires /\ Collides(PreVx + 8 + b, k, RightByte(k), b)
               THEN 1 ELSE 0

C16_WitnessHires ==
    /\ IsSchipDraw /\ pre.display.hires /\ panic = "" /\ cpu.v[15] = 1
    /\ \E k \in 0 .. SchipIterations - 1, b \in 0 .. 7 :
           /\ PreVx + 8 + b >= pre.display.width
           /\ Collides(PreVx + 8 + b, k, RightByte(k), b)

\* the opcode was executed
Executed(opcode) == IsExec /\ op[2] = opcode
\* the pixel at column c of row r (both from 0), and the rows and columns of a display
Pixel(d, c, r) == d.buffer[r + 1][c + 1]
Rows(d) == 0 .. d.height - 1
Cols(d) == 0 .. d.width - 1
Lit(d) == \E r \in Rows(d), c \in Cols(d) : Pixel(d, c, r)
\* the buffer has height rows of width pixels
WellFormed(d) == Len(d.buffer) = d.height /\ \A r \in Rows(d) : Len(d.buffer[r + 1]) = d.width

\* C17: 00FE / 00FF with the mode the display is in changes nothing of the display;
\* with the other mode it makes the display 128x64 (hi-res) or 64x32 (low-res) with every
\* pixel 0. Neither is fatal.
C17_SetHires ==
    (Executed(\h00FE) \/ Executed(\h00FF)) =>
        LET on == op[2] = \h00FF
            d == cpu.display
        IN /\ panic = ""
           /\ IF pre.display.hires = on
              THEN d = pre.display
              ELSE /\ d.hires = on
                   /\ d.width = (IF on THEN 128 ELSE 64)
                   /\ d.height = (IF on THEN 64 ELSE 32)
                   /\ WellFormed(d)
                   /\ ~Lit(d)

\* 00FF in hi-res with pixels lit: they stay lit
C17_Witness ==
    /\ Executed(\h00FF) /\ pre.display.hires /\ Lit(pre.display)
    /\ cpu.display = pre.display /\ panic = ""

\* the columns a horizontal scroll moves by in the mode of the display
ScrollAmount(d) == IF d.hires THEN 4 ELSE 2

\* C18: with p = 4 in hi-res and 2 in low-res, after 00FC pixel (c, r) is the old pixel
\* (c+p, r) for c < width-p and 0 in the p rightmost columns; after 00FB it is the old
\* pixel (c-p, r) for c >= p and 0 in the p leftmost columns. The size is unchanged.
C18_ScrollLeftRight ==
    LET d == cpu.display
        old == pre.display
        p == ScrollAmount(old)
        Same == panic = "" /\ d.width = old.width /\ d.height = old.height /\ WellFormed(d)
    IN /\ Executed(\h00FC) =>
            /\ Same
            /\ \A r \in Rows(d), c \in Cols(d) :
                   Pixel(d, c, r) = (IF c < d.width - p THEN Pixel(old, c + p, r) ELSE FALSE)
       /\ Executed(\h00FB) =>
            /\ Same
            /\ \A r \in Rows(d), c \in Cols(d) :
                   Pixel(d, c, r) = (IF c >= p THEN Pixel(old, c - p, r) ELSE FALSE)

\* a scroll left in hi-res that discards lit pixels of the 4 leftmost columns and moves
\* the lit pixels of column 4 to column 0
C18_Witness ==
    /\ Executed(\h00FC) /\ pre.display.hires /\ panic = ""
    /\ \E r \in Rows(pre.display), c \in 0 .. 3 : Pixel(pre.display, c, r)
    /\ \E r \in Rows(pre.display) : Pixel(pre.display, 4, r) /\ Pixel(cpu.display, 0, r)
    /\ \A r \in Rows(cpu.display), c \in 1 .. 127 : ~Pixel(cpu.display, c, r)

\* C19: after a scroll left, a scroll right gives the display as it was before the scroll
\* left in the columns p..width-1 and 0 in the columns 0..p-1.
C19_LeftThenRight ==
    Executed(\h00FC) =>
        LET back == scroll_right(cpu.display)
            old == pre.display
            p == ScrollAmount(old)
        IN /\ WellFormed(back) /\ back.width = old.width /\ back.height = old.height
           /\ \A r \in Rows(old), c \in Cols(old) :
                  Pixel(back, c, r) = (IF c >= p THEN Pixel(old, c, r) ELSE FALSE)

\* a scroll right after a scroll left of the glyph at column 1: what was left of it at
\* column 0 is back at column p, the columns before it are empty
C19_Witness ==
    /\ Executed(\h00FB) /\ panic = ""
    /\ \E r \in Rows(pre.display) :
           /\ Pixel(pre.display, 0, r)
           /\ Pixel(cpu.display, ScrollAmount(pre.display), r)
    /\ \A r \in Rows(cpu.display), c \in 0 .. ScrollAmount(pre.display) - 1 :
           ~Pixel(cpu.display, c, r)

\* C20: 00Cn moves the picture down by d = n rows in hi-res and n div 2 in low-res: the
\* top d rows are 0 and row r >= d is the old row r - d; the size is unchanged, and in
\* low-res 00C1 changes nothing.
C20_ScrollDown ==
    (IsExec /\ op[2] \in \h00C0 .. \h00CF) =>
        LET d == cpu.display
            old == pre.display
            n == OpZ
            rows == IF old.hires THEN n ELSE n \div 2
        IN /\ panic = "" /\ cpu.pc = pre.pc + 2
           /\ d.width = old.width /\ d.height = old.height /\ WellFormed(d)
           /\ \A r \in Rows(d), c \in Cols(d) :
                  Pixel(d, c, r) = (IF r >= rows THEN Pixel(old, c, r - rows) ELSE FALSE)
           /\ (~old.hires /\ n = 1) => d = old

\* 00C5 in low-res: lit pixels of the two bottom rows are discarded, others move down 2
C20_Witness ==
    /\ Executed(\h00C5) /\ ~pre.display.hires /\ panic = ""
    /\ \E c \in Cols(pre.display) : Pixel(pre.display, c, 31)
    /\ \E c \in Cols(pre.display) : Pixel(pre.display, c, 0) /\ Pixel(cpu.display, c, 2)
    /\ \A r \in 0 .. 1, c \in Cols(cpu.display) : ~Pixel(cpu.display, c, r)

\* cycle() was called at the elapsed time op[2]
IsCycle == op[1] = "cycle"
Elapsed == op[2]
\* the period of a clock of rate r, and the time since each clock was last serviced
Period(r) == 1000000000 \div r
SinceCpu == Elapsed - pre.cpu_timer.last_cycle_timestamp
SinceDelay == Elapsed - pre.delay_timer.last_cycle_timestamp

\* C22: the CPU clock has the period 1,000,000,000 div rate and the decrement clock
\* 1,000,000,000 div 60; cycle() at elapsed time t runs (t - last serviced) div period
\* instructions and decrements. So at 500 Hz 2,000,000 ns since the last service give
\* exactly 1 instruction, and 16,666,667 ns exactly 1 decrement.
C22_DueCycles ==
    (IsCycle /\ panic = "") =>
        /\ pre.cpu_timer.cycle_every_nanos = Period(pre.clock_rate_hz)
        /\ pre.delay_timer.cycle_every_nanos = Period(60)
        /\ returned.instructions = SinceCpu \div Period(pre.clock_rate_hz)
        /\ returned.decrements = SinceDelay \div Period(60)
        /\ (pre.clock_rate_hz = 500 /\ SinceCpu = 2000000) => returned.instructions = 1
        /\ SinceDelay = 16666667 => returned.decrements = 1

\* one cycle() that finds 2,000,000 ns on the 500 Hz clock and 16,666,667 ns on the other
C22_Witness ==
    /\ IsCycle /\ panic = "" /\ pre.clock_rate_hz = 500
    /\ SinceCpu = 2000000 /\ SinceDelay = 16666667
    /\ returned = Did(1, 1)

\* C23: a clock that reports one or more due cycles at elapsed time t is last serviced
\* at t exactly, whatever was left of the period; one that reports none keeps its stamp.
C23_Rebase ==
    (IsCycle /\ panic = "") =>
        /\ cpu.cpu_timer.last_cycle_timestamp =
               IF returned.instructions > 0 THEN Elapsed
               ELSE pre.cpu_timer.last_cycle_timestamp
        /\ cpu.delay_timer.last_cycle_timestamp =
               IF returned.decrements > 0 THEN Elapsed
               ELSE pre.delay_timer.last_cycle_timestamp

\* the CPU clock drops half a period (3,000,000 ns give 1 instruction, stamp = t) while the
\* decrement clock, not yet due, keeps its stamp of an earlier cycle()
C23_Witness ==
    /\ IsCycle /\ panic = "" /\ pre.clock_rate_hz = 500
    /\ SinceCpu = 3000000 /\ returned.instructions = 1
    /\ cpu.cpu_timer.last_cycle_timestamp = Elapsed
    /\ returned.decrements = 0
    /\ pre.delay_timer.last_cycle_timestamp > 0
    /\ cpu.delay_timer.last_cycle_timestamp = pre.delay_timer.last_cycle_timestamp

\* C21: in every state the buffer has height rows of width pixels, 128x64 when the hi-res
\* flag is set and 64x32 otherwise, whatever was drawn, cleared, switched or scrolled; a
\* scroll leaves width and height as they were.
C21_DisplaySize ==
    LET d == cpu.display
    IN /\ WellFormed(d)
       /\ d.width = (IF d.hires THEN 128 ELSE 64)
       /\ d.height = (IF d.hires THEN 64 ELSE 32)
       /\ (IsExec /\ op[2] \in {\h00FB, \h00FC} \cup (\h00C0 .. \h00CF))
              => (panic = "" /\ d.width = pre.display.width /\ d.height = pre.display.height)

\* a scroll down by 15 rows in hi-res, after a scroll left, of a display with lit pixels
C21_Witness ==
    /\ Executed(\h00CF) /\ cpu.display.hires /\ panic = ""
    /\ Opcode(Instruction(pre.ram[pre.pc - 2], pre.ram[pre.pc - 1])) = \h00FC
    /\ Lit(pre.display) /\ Lit(cpu.display) /\ cpu.display # pre.display

\* C26: whatever rates were set and whatever steps were made, the instructions per
\* decrement are clock_rate_hz div 60, the CPU clock's period is 1,000,000,000 div
\* clock_rate_hz, and the decrement clock's period is 1,000,000,000 div 60; none of the
\* calls is fatal.
C26_ClockConsistent ==
    /\ panic = ""
    /\ cpu.clock_rate_hz >= 60
    /\ cpu.num_instructions_per_decrement = cpu.clock_rate_hz \div 60
    /\ cpu.cpu_timer.cycle_every_nanos = Period(cpu.clock_rate_hz)
    /\ cpu.delay_timer.cycle_every_nanos = Period(60)

\* a step of 10 from 530 Hz to 540 Hz: the ratio goes from 8 to 9 and the period changes
C26_Witness ==
    /\ op = <<"inc_clock_rate_hz", 10>> /\ cpu.clock_rate_hz = 540
    /\ pre.num_instructions_per_decrement = 8 /\ cpu.num_instructions_per_decrement = 9
    /\ cpu.cpu_timer.cycle_every_nanos = 1851851
    /\ pre.cpu_timer.cycle_every_nanos = 1886792

RECURSIVE InstructionsSixty(_, _)
\* the instructions executed by a number of consecutive cycle_60hz calls
InstructionsSixty(c, calls) ==
    IF calls = 0 THEN 0
    ELSE LET r == cycle_60hz(c, LoopRand)
         IN r.ret.instructions + InstructionsSixty(r.cpu, calls - 1)

\* a run of cycle() calls: the state, the time of the next call, the instructions so far
Run(c, t, total) == [cpu |-> c, t |-> t, total |-> total]

RECURSIVE SelfTimedCalls(_, _)
\* up to n more calls of cycle(), one period apart, none after one second
SelfTimedCalls(run, n) ==
    IF n = 0 \/ run.t > NANOS_PER_SEC THEN run
    ELSE LET r == cycle(run.cpu, run.t, LoopRand)
         IN SelfTimedCalls(Run(r.cpu, run.t + run.cpu.cpu_timer.cycle_every_nanos,
                               run.total + r.ret.instructions), n - 1)

RECURSIVE SelfTimedRun(_)
\* the calls of one second, made in batches of 25
SelfTimedRun(run) ==
    IF run.t > NANOS_PER_SEC THEN run ELSE SelfTimedRun(SelfTimedCalls(run, 25))

\* the instructions executed by cycle() called at every whole period of the first second
InstructionsSelfTimed(c) == SelfTimedRun(Run(c, c.cpu_timer.cycle_every_nanos, 0)).total

\* C24 (as claimed): at the configured rate, 60 consecutive cycle_60hz calls execute as
\* many instructions as cycle() called once per CPU period over 1,000,000,000 ns.
C24_SameThroughput ==
    (panic = "" /\ cpu.clock_rate_hz \in 60 .. MaxRate) =>
        InstructionsSixty(cpu, 60) = InstructionsSelfTimed(cpu)

\* cycle_60hz was called; the instruction at addr is among the straight-line run of
\* instructions it executed (the program only jumps at ADDR_SPIN, to itself)
IsCycleSixty == op[1] = "cycle_60hz"
Ran(addr) == pre.pc <= addr /\ addr <= pre.pc + 2 * (returned.instructions - 1)
Lowered(value) == IF value > 0 THEN value - 1 ELSE 0

\* C25: a cycle_60hz call makes one decrement and executes clock_rate_hz div 60
\* instructions, reads no clock (the stamps stay), and decrements first: a register an
\* instruction of the call loaded holds the loaded value when the call returns, one it did
\* not load is lowered by 1.
C25_CycleSixty ==
    (IsCycleSixty /\ panic = "") =>
        /\ returned = Did(1, pre.clock_rate_hz \div 60)
        /\ cpu.cpu_timer = pre.cpu_timer /\ cpu.delay_timer = pre.delay_timer
        /\ cpu.start_time = pre.start_time
        /\ cpu.delay = (IF Ran(ADDR_LD_DT) THEN cpu.v[0] ELSE Lowered(pre.delay))
        /\ cpu.sound = (IF Ran(ADDR_LD_ST) THEN cpu.v[1] ELSE Lowered(pre.sound))

\* a call, 16,666,667 ns after the start, that runs F015: the delay register holds 3
C25_Witness ==
    /\ IsCycleSixty /\ panic = "" /\ now > 0
    /\ Ran(ADDR_LD_DT) /\ pre.delay = 0 /\ cpu.delay = 3

\* C30: a decrement lowers the delay register by 1 unless it is 0 and the sound register
\* by 1 unless it is 0, each on its own; a register Fx15 / Fx18 loaded with v is
\* max(v - k, 0) after k decrements, so 0 after v of them and from then on; the clock
\* rate plays no part.
C30_TimerDecrement ==
    /\ (op[1] = "decrement_timers" \/ (IsCycleSixty /\ pre.pc = ADDR_SPIN)) =>
           /\ panic = ""
           /\ cpu.delay = Lowered(pre.delay)
           /\ cpu.sound = Lowered(pre.sound)
    /\ (Executed(\hF015) /\ panic = "") =>
           /\ cpu.delay = pre.v[0]
           /\ \A k \in 0 .. pre.v[0] + 2 :
                  decrement_n(cpu, k).delay = (IF k < pre.v[0] THEN pre.v[0] - k ELSE 0)
    /\ (Executed(\hF118) /\ panic = "") =>
           /\ cpu.sound = pre.v[1]
           /\ \A k \in 0 .. pre.v[1] + 2 :
                  decrement_n(cpu, k).sound = (IF k < pre.v[1] THEN pre.v[1] - k ELSE 0)

\* at 1000 Hz a decrement takes the delay register from 2 to 1 and leaves the sound
\* register, which has reached 0, at 0
C30_Witness ==
    /\ op[1] = "decrement_timers" /\ cpu.clock_rate_hz = 1000
    /\ pre.delay = 2 /\ cpu.delay = 1 /\ pre.sound = 0 /\ cpu.sound = 0
    /\ cpu.v[1] = 1

IsReset == op[1] = "reset"

\* C27: after reset() I, the 16 registers, delay and sound are 0, pc is 512, the stack is
\* empty, no key is waited for and both clocks' stamps are 0.
C27_ResetRestores ==
    IsReset =>
        /\ panic = ""
        /\ cpu.i = 0
        /\ \A r \in 0 .. NUM_REGISTERS - 1 : cpu.v[r] = 0
        /\ cpu.delay = 0 /\ cpu.sound = 0
        /\ cpu.pc = 512
        /\ cpu.stack.sp = 0
        /\ cpu.keyboard.keywait = KeyWait_None
        /\ cpu.cpu_timer.last_cycle_timestamp = 0
        /\ cpu.delay_timer.last_cycle_timestamp = 0

\* a reset inside the subroutine, while the program waits for a key, the timers run and
\* both clocks have been serviced
C27_Witness ==
    /\ IsReset
    /\ pre.i # 0 /\ pre.v[0] # 0 /\ pre.delay > 0 /\ pre.sound > 0
    /\ pre.pc # 512 /\ pre.stack.sp > 0 /\ pre.keyboard.keywait = KeyWait_Wait
    /\ pre.cpu_timer.last_cycle_timestamp > 0
    /\ pre.delay_timer.last_cycle_timestamp > 0

\* C28: after reset() the display is low-res, 64x32, with every pixel 0, whichever mode
\* it was in and whatever it showed.
C28_ResetDisplay ==
    IsReset =>
        /\ ~cpu.display.hires
        /\ cpu.display.width = 64 /\ cpu.display.height = 32
        /\ WellFormed(cpu.display)
        /\ ~Lit(cpu.display)

\* C29: reset() leaves the 4096 bytes of memory, the 8 flag-bank registers, the 16 key
\* states and the clock rate as they were.
C29_ResetFrame ==
    IsReset =>
        /\ cpu.ram = pre.ram
        /\ cpu.flag = pre.flag
        /\ cpu.keyboard.keys = pre.keyboard.keys
        /\ cpu.clock_rate_hz = pre.clock_rate_hz
        /\ cpu.num_instructions_per_decrement = pre.num_instructions_per_decrement
        /\ cpu.cpu_timer.cycle_every_nanos = pre.cpu_timer.cycle_every_nanos

\* a reset after the program overwrote its first instruction and saved a flag register,
\* with a key held down, at 1000 Hz
C29_Witness ==
    /\ IsReset
    /\ pre.ram[PROGRAM_OFFSET] = 18 /\ cpu.ram[PROGRAM_OFFSET] = 18
    /\ pre.flag[0] = 18
    /\ pre.keyboard.keys[ResetKey]
    /\ pre.clock_rate_hz = 1000

\* the ROM the Cpu was constructed with lies at PROGRAM_OFFSET onward
RomAt(c, rom) == \A k \in 1 .. Len(rom) : c.ram[PROGRAM_OFFSET + k - 1] = rom[k]
\* every register but x is as it was
OthersKept(x) == \A r \in 0 .. NUM_REGISTERS - 1 : r # x => cpu.v[r] = pre.v[r]

\* C31: a new Cpu has pc = 512 and its ROM at 512 onward; 6xkk sets Vx = kk and 7xkk sets
\* Vx = (Vx + kk) mod 256, neither is fatal, either changes no other register (so not
\* register 15 when x is not 15) and advances pc by 2; 60 05 70 03 leaves V0 = 8 and
\* pc = 516 after two instructions.
C31_Sequential ==
    /\ op[1] = "new" =>
           /\ cpu.pc = 512
           /\ \E ops \in SeqRoms : RomAt(cpu, Bytes(ops))
    /\ (IsExec /\ op[2] >= 0 /\ OpW = 6) =>
           /\ panic = "" /\ cpu.v[OpX] = OpKK /\ OthersKept(OpX)
           /\ cpu.pc = pre.pc + 2
    /\ (IsExec /\ op[2] >= 0 /\ OpW = 7) =>
           /\ panic = "" /\ cpu.v[OpX] = (PreVx + OpKK) % 256 /\ OthersKept(OpX)
           /\ cpu.pc = pre.pc + 2
    /\ (RomAt(cpu, <<\h60, \h05, \h70, \h03>>) /\ Executed(\h7003) /\ pre.pc = 514) =>
           cpu.v[0] = 8 /\ cpu.pc = 516

\* the program 60 05 70 03 after its two instructions
C31_Witness ==
    /\ RomAt(cpu, <<\h60, \h05, \h70, \h03>>) /\ Executed(\h7003) /\ pre.pc = 514
    /\ pre.v[0] = 5 /\ cpu.v[0] = 8 /\ cpu.pc = 516

\* an addition that wraps, with register 15 set before: register 15 stays 1
C31_WitnessWrap ==
    /\ Executed(ADD(14, 255)) /\ pre.v[14] = 5 /\ cpu.v[14] = 4
    /\ pre.v[15] = 1 /\ cpu.v[15] = 1

\* C32: 00E0 leaves every pixel 0, the mode and the dimensions as they were, every
\* register (register 15 included) and I as they were, and advances pc by 2; it is never
\* fatal.
C32_ClearScreen ==
    Executed(\h00E0) =>
        /\ panic = ""
        /\ WellFormed(cpu.display) /\ ~Lit(cpu.display)
        /\ cpu.display.hires = pre.display.hires
        /\ cpu.display.width = pre.display.width
        /\ cpu.display.height = pre.display.height
        /\ cpu.v = pre.v /\ cpu.i = pre.i
        /\ cpu.pc = pre.pc + 2

\* 00E0 in hi-res on a display that shows a glyph
C32_Witness ==
    /\ Executed(\h00E0) /\ pre.display.hires /\ Lit(pre.display)
    /\ cpu.display.hires /\ cpu.display.width = 128 /\ ~Lit(cpu.display)

\* 00E0 in low-res after a draw that erased pixels: register 15 stays 1
C32_WitnessLow ==
    /\ Executed(\h00E0) /\ ~pre.display.hires /\ pre.v[15] = 1 /\ cpu.v[15] = 1

IsSave == IsExec /\ op[2] >= 0 /\ OpW = 15 /\ OpKK = \h75
IsLoad == IsExec /\ op[2] >= 0 /\ OpW = 15 /\ OpKK = \h85
\* the registers after the program changed V0, V1 and V7 and then executed Fx85
Reloaded(x) ==
    exec_F([cpu EXCEPT !.v[0] = 32 + 1, !.v[1] = 32 + 2, !.v[7] = 32 + 8],
           InstructionOf(LOAD(x))).cpu.v

\* C33: for x in 0..7, Fx75 copies V0..Vx into the flag slots 0..x and Fx85 copies the
\* slots 0..x into V0..Vx, leaving the slots and registers above x (and what they copy
\* from) as they were, so an Fx85 after an Fx75 gives V0..Vx back; for x in 8..15 either
\* is fatal and copies nothing.
C33_FlagBank ==
    /\ (IsSave /\ OpX < 8) =>
           /\ panic = "" /\ cpu.v = pre.v
           /\ \A r \in 0 .. NUM_FLAG_REGISTERS - 1 :
                  cpu.flag[r] = (IF r <= OpX THEN pre.v[r] ELSE pre.flag[r])
           /\ \A r \in 0 .. OpX : Reloaded(OpX)[r] = pre.v[r]
    /\ (IsLoad /\ OpX < 8) =>
           /\ panic = "" /\ cpu.flag = pre.flag
           /\ \A r \in 0 .. NUM_REGISTERS - 1 :
                  cpu.v[r] = (IF r <= OpX THEN pre.flag[r] ELSE pre.v[r])
    /\ ((IsSave \/ IsLoad) /\ OpX >= 8) =>
           /\ panic # "" /\ cpu.v = pre.v /\ cpu.flag = pre.flag

\* F175 over a full bank, then F185 after the registers changed: V0 and V1 come back,
\* V7 keeps its new value
C33_Witness ==
    /\ Executed(LOAD(1)) /\ panic = ""
    /\ pre.flag[0] = 17 /\ pre.flag[1] = 18 /\ pre.flag[7] = 8
    /\ pre.v[0] = 33 /\ cpu.v[0] = 17 /\ cpu.v[1] = 18 /\ cpu.v[7] = 40

\* F875 is fatal
C33_WitnessFatal == Executed(SAVE(8)) /\ panic = FX75_MSG /\ cpu.flag[0] = 1

\* the row byte k (from 1) of the sprite lands on, and the column of its bit b
RowOf(k) == (PreVy + k - 1) % pre.display.height
ColOf(b) == (PreVx + b) % pre.display.width
\* a sprite bit 1 lands on the pixel at column c of row r
Struck(c, r) ==
    \E k \in 1 .. OpZ, b \in 0 .. 7 :
        RowOf(k) = r /\ ColOf(b) = c /\ SpriteBit(Sprite[k], b) = 1

\* C34: Dxyn XORs bit b of sprite byte k onto the pixel at column (Vx + b) mod width of
\* row (Vy + k) mod height, for every Vx and Vy in 0..255; every other pixel stays as it
\* was, the buffer keeps its shape and no position is fatal.
C34_DrawWraps ==
    IsDraw =>
        /\ panic = ""
        /\ WellFormed(cpu.display)
        /\ \A r \in Rows(pre.display) :
               IF \E k \in 1 .. OpZ : RowOf(k) = r
               THEN \A c \in Cols(pre.display) :
                        Pixel(cpu.display, c, r) = (Pixel(pre.display, c, r) # Struck(c, r))
               ELSE cpu.display.buffer[r + 1] = pre.display.buffer[r + 1]

\* a sprite drawn in hi-res at (255, 255): its first row lands on row 63 from column 127
\* on, continuing at column 0, and its second row on row 0
C34_Witness ==
    /\ IsDraw /\ PreVx = 255 /\ PreVy = 255 /\ OpZ = 5 /\ pre.display.hires
    /\ Pixel(cpu.display, 1, 63) # Pixel(pre.display, 1, 63)
    /\ Pixel(cpu.display, 0, 0) # Pixel(pre.display, 0, 0)
    /\ Pixel(cpu.display, 127, 0) = Pixel(pre.display, 127, 0)

IsStore == IsExec /\ op[2] >= 0 /\ OpW = 15 /\ OpKK = \h55
IsFetch == IsExec /\ op[2] >= 0 /\ OpW = 15 /\ OpKK = \h65
\* the block I..I+x lies in the memory
BlockFits == pre.i + OpX < RAM_SIZE
\* the registers after the program changed V0, V1 and VF and then executed Fx65
Refetched(x) ==
    exec_F([cpu EXCEPT !.v[0] = 32 + 1, !.v[1] = 32 + 2, !.v[15] = 32 + 16],
           InstructionOf(FETCH(x))).cpu.v

\* C35: for every x, Fx55 copies V0..Vx to the memory I..I+x and Fx65 copies the memory
\* I..I+x into V0..Vx; I, the registers above x and the memory outside I..I+x stay as
\* they were, so an Fx65 after an Fx55 with the same x gives V0..Vx back. (A block that
\* does not fit in the memory is the out-of-range fault: nothing is copied.)
C35_BlockTransfer ==
    /\ (IsStore /\ BlockFits) =>
           /\ panic = "" /\ cpu.i = pre.i /\ cpu.v = pre.v
           /\ \A a \in 0 .. RAM_SIZE - 1 :
                  cpu.ram[a] = (IF a >= pre.i /\ a <= pre.i + OpX
                                THEN pre.v[a - pre.i] ELSE pre.ram[a])
           /\ \A r \in 0 .. OpX : Refetched(OpX)[r] = pre.v[r]
    /\ (IsFetch /\ BlockFits) =>
           /\ panic = "" /\ cpu.i = pre.i /\ cpu.ram = pre.ram
           /\ \A r \in 0 .. NUM_REGISTERS - 1 :
                  cpu.v[r] = (IF r <= OpX THEN pre.ram[pre.i + r] ELSE pre.v[r])
    /\ ((IsStore \/ IsFetch) /\ ~BlockFits) =>
           /\ panic # "" /\ cpu.i = pre.i /\ cpu.v = pre.v /\ cpu.ram = pre.ram

\* FF55 stored all 16 registers in the last 16 bytes of the memory; after V0, V1 and VF
\* changed, F165 fetches V0 and V1 and leaves VF
C35_Witness ==
    /\ Executed(FETCH(1)) /\ panic = "" /\ pre.i = RAM_SIZE - 16
    /\ pre.ram[RAM_SIZE - 1] = 16
    /\ pre.v[0] = 33 /\ cpu.v[0] = 1 /\ cpu.v[1] = 2 /\ cpu.v[15] = 48

\* F055 over the first byte of the font
C35_WitnessStore ==
    /\ Executed(STORE(0)) /\ pre.i = 0 /\ pre.ram[0] = \hF0 /\ cpu.ram[0] = 1
    /\ cpu.ram[1] = \h90

IsFont == IsExec /\ op[2] >= 0 /\ OpW = 15 /\ OpKK = \h29
IsBigFont == IsExec /\ op[2] >= 0 /\ OpW = 15 /\ OpKK = \h30

\* C36: for every Vx in 0..255, Fx29 sets I = 5 * Vx and Fx30 sets I = 80 + 10 * Vx,
\* neither being fatal; for a digit 0..15 the 5 or 10 bytes from there on lie in the
\* sprite table, the small glyphs in [0, 80) and the big ones in [80, 240).
C36_FontAddress ==
    /\ IsFont =>
           /\ panic = "" /\ cpu.i = 5 * PreVx
           /\ PreVx < 16 => cpu.i + 5 <= SMALL_SPRITE_LEN
    /\ IsBigFont =>
           /\ panic = "" /\ cpu.i = SMALL_SPRITE_LEN + 10 * PreVx
           /\ PreVx < 16 => cpu.i + 10 <= SPRITE_LEN

\* C37: between calls, a wait state of waiting-for-key or key-pressed means that pc is
\* the address of an Fx0A instruction.
C37_WaitAtFx0A ==
    cpu.keyboard.keywait # KeyWait_None => IsFx0A(Fetched(cpu))

\* a cycle_60hz call that finished the first wait with key 1, went on and armed the
\* second wait, where it spins
C37_Witness ==
    /\ IsCycleSixty /\ pre.keyboard.keywait = KeyWait_Pressed(1) /\ pre.pc = PROGRAM_OFFSET + 2
    /\ cpu.v[0] = 1 /\ cpu.keyboard.keywait = KeyWait_Wait /\ cpu.pc = PROGRAM_OFFSET + 4
    /\ returned.instructions = 8

KeyWaitKind(c) == c.keyboard.keywait[1]
IsDriving == IsExec \/ IsCycle \/ IsCycleSixty

\* C38: keys that are down do not end a wait. A step, cycle() or cycle_60hz() call made
\* in waiting-for-key leaves the state waiting-for-key, pc and the registers as they
\* were, whichever keys are down, and arming the wait gives waiting-for-key, too; the
\* state becomes key-pressed only by a toggle_key(_, true) call made in waiting-for-key.
C38_HeldKeyDoesNotComplete ==
    /\ (IsDriving /\ KeyWaitKind(pre) = "Wait") =>
           /\ panic = "" /\ KeyWaitKind(cpu) = "Wait"
           /\ cpu.pc = pre.pc /\ cpu.v = pre.v
    /\ (IsDriving /\ KeyWaitKind(pre) = "None") => KeyWaitKind(cpu) # "Pressed"
    /\ (ExecFx0A /\ KeyWaitKind(pre) = "None") =>
           KeyWaitKind(cpu) = "Wait" /\ cpu.pc = pre.pc /\ cpu.v = pre.v
    /\ (KeyWaitKind(cpu) = "Pressed" /\ KeyWaitKind(pre) # "Pressed") =>
           IsToggle /\ op[3] /\ KeyWaitKind(pre) = "Wait" /\ cpu.keyboard.keywait = KeyWait_Pressed(op[2])

\* keys 1 and 2 went down before the wait was armed: a cycle_60hz call spins on the Fx0A
\* for all its 8 instructions
C38_Witness ==
    /\ IsCycleSixty /\ returned.instructions = 8
    /\ pre.keyboard.keys[1] /\ pre.keyboard.keys[2]
    /\ KeyWaitKind(pre) = "Wait" /\ KeyWaitKind(cpu) = "Wait" /\ cpu.pc = pre.pc

\* a key that is down is pressed again while the program waits: that call completes it
C38_WitnessPress ==
    /\ IsToggle /\ op[2] = 1 /\ op[3] /\ pre.keyboard.keys[1]
    /\ KeyWaitKind(pre) = "Wait" /\ cpu.keyboard.keywait = KeyWait_Pressed(1)

\* elapsed times at which cycle() is observed: before, at and after the first CPU period
\* at 500 Hz, around the first 60 Hz period, and later
ObsTimes == {0, 1999999, 2000000, 16666666, 16666667, 20000000}

RECURSIVE Observed(_, _, _, _)
\* what the cycle() calls at times[k], times[k + 1], ... did in all, added to acc
Observed(c, times, k, acc) ==
    IF k > Len(times)
    THEN acc
    ELSE Only({ IF r.panic # ""
                THEN acc
                ELSE Observed(r.cpu, times, k + 1,
                              Did(acc.decrements + r.ret.decrements,
                                  acc.instructions + r.ret.instructions))
                : r \in {cycle(c, times[k], LoopRand)} })

\* no cycle() call has found anything due yet
Unserviced ==
    /\ panic = ""
    /\ cpu.cpu_timer.last_cycle_timestamp = 0
    /\ cpu.delay_timer.last_cycle_timestamp = 0

\* the cycle() call ran the instruction at addr (the program is a straight line into the
\* loop ADDR_GET_DT, ADDR_GET_DT + 2)
RanInCycle(addr) ==
    \/ pre.pc <= addr /\ addr <= pre.pc + 2 * (returned.instructions - 1)
    \/ addr = ADDR_GET_DT /\ pre.pc = ADDR_GET_DT + 2 /\ returned.instructions >= 2
AfterDecrements == decrement_n(pre, returned.decrements).delay

\* C39: cycle() calls at non-decreasing elapsed times ending at T run, in all, at most
\* T div (CPU period) instructions and at most T div (60 Hz period) decrements, at the
\* rate in force; and a call applies its decrements before its instructions: an
\* instruction of the call that reads the delay timer reads the value after them.
C39_NeverOverExecutes ==
    /\ Unserviced =>
           \A t1 \in ObsTimes, t2 \in ObsTimes, t3 \in ObsTimes :
               (t1 <= t2 /\ t2 <= t3) =>
                   LET all == Observed(cpu, <<t1, t2, t3>>, 1, Did(0, 0))
                   IN /\ all.instructions <= t3 \div cpu.cpu_timer.cycle_every_nanos
                      /\ all.decrements <= t3 \div cpu.delay_timer.cycle_every_nanos
    /\ (IsCycle /\ panic = "") =>
           /\ returned.instructions <= Elapsed \div pre.cpu_timer.cycle_every_nanos
           /\ returned.decrements <= Elapsed \div pre.delay_timer.cycle_every_nanos
           /\ cpu.delay = (IF RanInCycle(ADDR_SET_DT) THEN cpu.v[0] ELSE AfterDecrements)
           /\ RanInCycle(ADDR_GET_DT) => cpu.v[1] = cpu.delay

\* a cycle() call that finds one decrement and several instructions due while the delay
\* timer is 5: the loop reads 4
C39_Witness ==
    /\ IsCycle /\ returned.decrements = 1 /\ returned.instructions >= 2
    /\ pre.delay = 5 /\ pre.v[1] = 5 /\ cpu.delay = 4 /\ cpu.v[1] = 4

\* three observations at 1000 Hz, each dropping the part of a period it found: 1, 14 and
\* 3 instructions, 18 where 20,000,000 ns hold 20 periods, and the one decrement
C39_WitnessLost ==
    /\ Unserviced /\ cpu.clock_rate_hz = 1000
    /\ Observed(cpu, <<1999999, 16666666, 20000000>>, 1, Did(0, 0)) = Did(1, 18)

IsInc == op[1] = "inc_clock_rate_hz"
\* the 32-bit signed, wrapping sum the call computes
NewRate == wrapping_add_i32(pre.clock_rate_hz, op[2])

\* C40: inc_clock_rate_hz(a) makes clock_rate + a (32-bit signed, wrapping) the clock
\* rate, with its ratio and period, when that sum is at least 60, and changes nothing
\* otherwise; so the clock rate is always at least 60 and the ratio at least 1: the
\* division that gives the period has a divisor above 0 and cycle_60hz runs at least one
\* instruction.
C40_IncKeepsRate ==
    /\ IsInc =>
           /\ panic = ""
           /\ IF NewRate >= 60
              THEN /\ cpu.clock_rate_hz = NewRate
                   /\ cpu.num_instructions_per_decrement = NewRate \div 60
                   /\ cpu.cpu_timer.cycle_every_nanos = NANOS_PER_SEC \div NewRate
              ELSE cpu = pre
    /\ cpu.clock_rate_hz >= 60
    /\ cpu.num_instructions_per_decrement >= 1
    /\ (panic = "" /\ cpu.clock_rate_hz <= MaxRate) =>
           cycle_60hz(cpu, LoopRand).ret.instructions >= 1

\* at 60 Hz a step of -10 changes nothing: the ratio stays 1
C40_Witness ==
    /\ IsInc /\ op[2] = -10 /\ pre.clock_rate_hz = 60 /\ NewRate = 50
    /\ cpu.clock_rate_hz = 60 /\ cpu.num_instructions_per_decrement = 1

\* a step whose sum wraps around to a negative number changes nothing
C40_WitnessWraps ==
    /\ IsInc /\ op[2] = 2000000000 /\ pre.clock_rate_hz = I32_MAX /\ NewRate < 0
    /\ cpu.clock_rate_hz = I32_MAX

====
